---- MODULE Spec2Model ----
(***************************************************************************)
(* A model of the EuroCV conversion pipeline: extractor selection          *)
(* (core/extract/registry.py, core/converter.py), the heuristic field      *)
(* extractors (core/extract/generic_pdf_extractor.py, docx_extractor.py),  *)
(* the Europass mapper (core/map/europass_mapper.py) and the structural    *)
(* validator (core/validate/schema_validator.py).                          *)
(*                                                                         *)
(* Python strings are sequences of one-character strings, so that lower(), *)
(* find(), slicing and the regular expressions of the source are computed  *)
(* character by character.  Python dicts are functions whose DOMAIN is the *)
(* set of keys; a JSON value that is not a dict is wrapped as Scalar(v).   *)
(***************************************************************************)
EXTENDS Integers, Sequences, FiniteSets, TLC

VARIABLES
    reg_call,      \* the call made to the selection layer: function, path, OCR flag, document
    reg_result,    \* what the call returned or raised
    conv_in,       \* a conversion: the Resume, include_photo and the clock reading
    conv_pc,       \* how far the conversion got: "start", "mapped", "done"
    europass,      \* the EuropassCV built by EuropassMapper.map
    json_data,     \* EuropassCV.to_json() of it, or the data handed to the validator
    validation,    \* what SchemaValidator.validate_json returned or raised
    section_text,  \* the text of the CV section handed to a field extractor
    extract_by,    \* the extractor that parsed it: "none", "generic" or "docx"
    languages,     \* the list of Language records _extract_languages returned
    skills,        \* the list of Skill records _extract_skills returned
    sections,      \* the dict _split_into_sections returned: section name -> content
    extracted,     \* the list a work, education or certification extractor returned
    raised,        \* the exception that left the field extractor, or "none"
    request,       \* the request POST /convert is handling
    response,      \* the response it sent
    calls,         \* the convert_to_europass call each thread is in, with its locals
    heap,          \* the metadata dicts of the Resume instances created so far
    returned,      \* what the calls that have returned gave back, with their inputs
    tmp_files      \* the files in the directory of temporary files

regVars == <<reg_call, reg_result>>
convVars == <<conv_in, conv_pc, europass, json_data, validation>>
extractVars == <<section_text, extract_by, languages, skills>>
parseVars == <<sections, extracted, raised>>
serviceVars == <<request, response, calls, heap, returned, tmp_files>>
vars == <<reg_call, reg_result, conv_in, conv_pc, europass, json_data, validation,
          section_text, extract_by, languages, skills, sections, extracted, raised,
          request, response, calls, heap, returned, tmp_files>>

(***************************************************************************)
(* Strings                                                                 *)
(***************************************************************************)
UpperLetters == <<"A","B","C","D","E","F","G","H","I","J","K","L","M",
                  "N","O","P","Q","R","S","T","U","V","W","X","Y","Z">>
LowerLetters == <<"a","b","c","d","e","f","g","h","i","j","k","l","m",
                  "n","o","p","q","r","s","t","u","v","w","x","y","z">>
Digits == {"0","1","2","3","4","5","6","7","8","9"}
UpperSet == {UpperLetters[i] : i \in 1..Len(UpperLetters)}
LowerSet == {LowerLetters[i] : i \in 1..Len(LowerLetters)}

LowerMap == [c \in UpperSet |->
               LowerLetters[CHOOSE i \in 1..Len(UpperLetters) : UpperLetters[i] = c]]

\* str.lower() of one character
lower_char(c) == IF c \in UpperSet THEN LowerMap[c] ELSE c

\* str.lower()
lower(s) == [i \in 1..Len(s) |-> lower_char(s[i])]

Min(a, b) == IF a < b THEN a ELSE b
Max(a, b) == IF a > b THEN a ELSE b

\* s[lo:hi] for 0 <= lo, 0 <= hi (Python clamps hi to len(s))
Slice(s, lo, hi) == SubSeq(s, lo + 1, Min(hi, Len(s)))

\* s.startswith(p) at 0-based offset i
MatchAt(s, i, p) == /\ i + Len(p) <= Len(s)
                    /\ \A k \in 1..Len(p) : s[i + k] = p[k]

startswith(s, p) == MatchAt(s, 0, p)

endswith(s, p) == Len(s) >= Len(p) /\ MatchAt(s, Len(s) - Len(p), p)

\* the 0-based offsets at which sub occurs in s
Occurrences(s, sub) == {i \in 0..(Len(s) - Len(sub)) : MatchAt(s, i, sub)}

SetMin(S) == CHOOSE x \in S : \A y \in S : x <= y
SetMax(S) == CHOOSE x \in S : \A y \in S : x >= y

\* s.find(sub): the first offset, or -1
find(s, sub) == IF Occurrences(s, sub) = {} THEN -1 ELSE SetMin(Occurrences(s, sub))

\* s.rfind(sub): the last offset, or -1
rfind(s, sub) == IF Occurrences(s, sub) = {} THEN -1 ELSE SetMax(Occurrences(s, sub))

\* sub in s
contains(s, sub) == Occurrences(s, sub) # {}

UpperMap == [c \in LowerSet |->
               UpperLetters[CHOOSE i \in 1..Len(LowerLetters) : LowerLetters[i] = c]]

\* str.upper()
upper(s) == [i \in 1..Len(s) |-> IF s[i] \in LowerSet THEN UpperMap[s[i]] ELSE s[i]]

Whitespace == {" ", "\n", "\t", "\r"}

\* str.strip()
RECURSIVE lstrip(_)
lstrip(s) == IF s # <<>> /\ s[1] \in Whitespace THEN lstrip(Tail(s)) ELSE s
RECURSIVE rstrip(_)
rstrip(s) == IF s # <<>> /\ s[Len(s)] \in Whitespace
             THEN rstrip(SubSeq(s, 1, Len(s) - 1)) ELSE s
strip(s) == rstrip(lstrip(s))

\* \w of the re module
IsWordChar(c) == c \in UpperSet \cup LowerSet \cup Digits \cup {"_"}

\* is the character after 0-based offset i - 1 (the i-th character) a word character
WordAt(s, i) == i >= 1 /\ i <= Len(s) /\ IsWordChar(s[i])

\* \b at 0-based offset i
Boundary(s, i) == WordAt(s, i) # WordAt(s, i + 1)

\* the offsets where re.search(r"\b<word>\b", s) can match the literal word
WordOccurrences(s, word) ==
    {i \in Occurrences(s, word) : Boundary(s, i) /\ Boundary(s, i + Len(word))}

\* re.search(r"\b<word>\b", s) is not None
ReWord(s, word) == WordOccurrences(s, word) # {}

\* sep.join(items)
RECURSIVE join(_, _)
join(sep, items) ==
    IF items = <<>> THEN <<>>
    ELSE IF Len(items) = 1 THEN items[1]
    ELSE items[1] \o sep \o join(sep, Tail(items))

\* s.split(sep)[0] for a one-character separator
first_field(s, sep) == IF find(s, sep) < 0 THEN s ELSE Slice(s, 0, find(s, sep))

DigitSeq == <<"0","1","2","3","4","5","6","7","8","9">>

\* str(n) for n >= 0
RECURSIVE int_to_str(_)
int_to_str(n) == IF n < 10 THEN <<DigitSeq[n + 1]>>
                 ELSE int_to_str(n \div 10) \o <<DigitSeq[(n % 10) + 1]>>

\* the elements of a list
Range(seq) == {seq[i] : i \in 1..Len(seq)}

(***************************************************************************)
(* Python values                                                           *)
(***************************************************************************)
\* Optional[T]: None, or the value
None == <<>>
Some(v) == <<v>>
val(x) == x[1]

\* truth of an Optional[str] or Optional[bytes]: neither None nor empty
truthy(x) == x # None /\ val(x) # <<>>

\* truth of an Optional[date]
is_set(x) == x # None

Date(y, m, d) == [year |-> y, month |-> m, day |-> d]

\* a dict is a function from its keys; {} is the empty function
EmptyDict == <<>>

\* d[k] = v executed only if cond holds
Put(cond, k, v) == IF cond THEN k :> v ELSE EmptyDict

\* a JSON value that is not a dict or a list
Scalar(py_type) == [py_type |-> py_type]

\* not d, for a dict d
IsEmpty(d) == DOMAIN d = {}

\* isinstance(v, dict)
IsDict(v) == "py_type" \notin DOMAIN v

(***************************************************************************)
(* Extractor selection: core/extract/registry.py                           *)
(***************************************************************************)
\* A document on disk: its path and what PyMuPDF reports for it.
FilePaths == {
    <<"r","e","s","u","m","e",".","p","d","f">>,
    <<"r","e","s","u","m","e",".","P","D","F">>,
    <<"r","e","s","u","m","e",".","d","o","c","x">>,
    <<"r","e","s","u","m","e",".","d","o","c">>,
    <<"r","e","s","u","m","e",".","D","o","c","X">>,
    <<"t","e","s","t",".","t","x","t">>,
    <<"c","v",".","p","d","f",".","t","x","t">>,
    <<"c","v",".","d","o","c",".","p","d","f">>,
    <<"p","d","f">>,
    <<".","p","d","f">>,
    <<"a",".","d","o","c","x","/","c","v",".","p","d","f">> }

Producers == {
    <<>>,
    <<"L","i","n","k","e","d","I","n"," ","P","D","F"," ","G","e","n","e","r","a","t","o","r">>,
    <<"W","o","r","d">> }

PageTexts == {
    <<"R","e","g","u","l","a","r"," ","r","e","s","u","m","e"," ","c","o","n","t","e","n","t">>,
    <<"J","o","h","n"," ","D","o","e","\n","l","i","n","k","e","d","i","n",".","c","o","m","/","i","n","/","j","o","h","n","d","o","e">> }

\* GenericPDFExtractor.can_handle
GenericPDFExtractor_can_handle(file_path) ==
    endswith(lower(file_path), <<".","p","d","f">>)

\* DOCXExtractor.can_handle
DOCXExtractor_can_handle(file_path) ==
    \/ endswith(lower(file_path), <<".","d","o","c","x">>)
    \/ endswith(lower(file_path), <<".","d","o","c">>)

\* LinkedInPDFExtractor.can_handle: a PDF whose producer metadata or page
\* content carries the LinkedIn export signature.
LinkedInPDFExtractor_can_handle(file_path, producer, page_text) ==
    /\ endswith(lower(file_path), <<".","p","d","f">>)
    /\ \/ contains(lower(producer), <<"l","i","n","k","e","d","i","n">>)
       \/ contains(lower(page_text), <<"l","i","n","k","e","d","i","n">>)

\* EXTRACTORS, in priority order
EXTRACTORS == <<"LinkedInPDFExtractor", "DOCXExtractor", "GenericPDFExtractor">>

can_handle(extractor_class, call) ==
    CASE extractor_class = "LinkedInPDFExtractor" ->
            LinkedInPDFExtractor_can_handle(call.file_path, call.producer, call.page_text)
      [] extractor_class = "DOCXExtractor" -> DOCXExtractor_can_handle(call.file_path)
      [] extractor_class = "GenericPDFExtractor" -> GenericPDFExtractor_can_handle(call.file_path)

NoSuitableMsg == <<"N","o"," ","s","u","i","t","a","b","l","e"," ","e","x","t","r","a",
                   "c","t","o","r"," ","f","o","u","n","d"," ","f","o","r",":"," ">>
SupportedMsg == <<"."," ","S","u","p","p","o","r","t","e","d"," ","f","o","r","m","a","t",
                  "s",":"," ","P","D","F",","," ","D","O","C","X">>
UnsupportedMsg == <<"U","n","s","u","p","p","o","r","t","e","d"," ","f","i","l","e"," ",
                    "f","o","r","m","a","t",":"," ">>

Returned(extractor) == [extractor |-> extractor, exception |-> "none", message |-> <<>>]
Raised(exception, message) == [extractor |-> "none", exception |-> exception, message |-> message]

\* the for loop of get_extractor from index i on
RECURSIVE get_extractor_from(_, _)
get_extractor_from(i, call) ==
    IF i > Len(EXTRACTORS)
    THEN Raised("ValueError", NoSuitableMsg \o call.file_path \o SupportedMsg)
    ELSE IF can_handle(EXTRACTORS[i], call)
         THEN Returned(EXTRACTORS[i])
         ELSE get_extractor_from(i + 1, call)

\* a plausible slip: the generic fallback is tried before the DOCX extractor and
\* the LinkedIn extractor last
get_extractor_wrong_order(call) ==
    IF GenericPDFExtractor_can_handle(call.file_path) THEN Returned("GenericPDFExtractor")
    ELSE IF DOCXExtractor_can_handle(call.file_path) THEN Returned("DOCXExtractor")
    ELSE IF can_handle("LinkedInPDFExtractor", call) THEN Returned("LinkedInPDFExtractor")
    ELSE Raised("ValueError", NoSuitableMsg \o call.file_path \o SupportedMsg)

\* a plausible slip: the loop falls through and returns the last extractor
get_extractor_no_raise(call) ==
    IF \E i \in 1..Len(EXTRACTORS) : can_handle(EXTRACTORS[i], call)
    THEN get_extractor_from(1, call)
    ELSE Returned(EXTRACTORS[Len(EXTRACTORS)])

\* get_extractor(file_path, use_ocr)
get_extractor(call) == get_extractor_from(1, call)

\* pathlib: Path(file_path).suffix
path_name(file_path) == Slice(file_path, rfind(file_path, <<"/">>) + 1, Len(file_path))
path_suffix(file_path) ==
    LET name == path_name(file_path)
        i == rfind(name, <<".">>)
    IN IF 0 < i /\ i < Len(name) - 1 THEN Slice(name, i, Len(name)) ELSE <<>>

\* converter.extract_resume: the extractor whose extract() is called, or the error
extract_resume(call) ==
    LET suffix == lower(path_suffix(call.file_path))
    IN IF suffix = <<".","p","d","f">> THEN Returned("PDFExtractor")
       ELSE IF suffix \in {<<".","d","o","c","x">>, <<".","d","o","c">>}
            THEN Returned("DOCXExtractor")
            ELSE Raised("ValueError", UnsupportedMsg \o suffix)

RegCalls(fn) == [fn : {fn}, file_path : FilePaths, use_ocr : BOOLEAN,
                 producer : Producers, page_text : PageTexts]

\* a document is on disk and no call has been made yet
RegIdle == [fn |-> "idle", file_path |-> <<>>, use_ocr |-> FALSE,
            producer |-> <<>>, page_text |-> <<>>]

\* no section has been handed to a field extractor
ExtractIdle == /\ section_text = <<>>
               /\ extract_by = "idle"
               /\ languages = <<>>
               /\ skills = <<>>

\* no text has been split and no entry list has been extracted
ParseIdle == /\ sections = <<>>
             /\ extracted = <<>>
             /\ raised = "none"

\* no request has arrived and no thread is converting
ServiceIdle == /\ request = EmptyDict
               /\ response = EmptyDict
               /\ calls = <<>>
               /\ heap = <<>>
               /\ returned = {}
               /\ tmp_files = {}

RegInit == /\ reg_call \in RegCalls("none")
           /\ reg_result = Returned("none")
           /\ conv_in = EmptyDict
           /\ conv_pc = "idle"
           /\ europass = EmptyDict
           /\ json_data = EmptyDict
           /\ validation = EmptyDict
           /\ ExtractIdle
           /\ ParseIdle
           /\ ServiceIdle

\* a caller asks the registry for an extractor
GetExtractor ==
    /\ reg_call.fn = "none"
    /\ reg_call' = [reg_call EXCEPT !.fn = "get_extractor"]
    /\ reg_result' = get_extractor(reg_call)
    /\ UNCHANGED <<convVars, extractVars, parseVars, serviceVars>>

\* a caller asks the converter to extract a resume
ExtractResume ==
    /\ reg_call.fn = "none"
    /\ reg_call' = [reg_call EXCEPT !.fn = "extract_resume"]
    /\ reg_result' = extract_resume(reg_call)
    /\ UNCHANGED <<convVars, extractVars, parseVars, serviceVars>>

RegNext == GetExtractor \/ ExtractResume

SpecRegistry == RegInit /\ [][RegNext]_vars

AnyCanHandle(call) == \E i \in 1..Len(EXTRACTORS) : can_handle(EXTRACTORS[i], call)

\* C3: get_extractor tries LinkedInPDFExtractor, DOCXExtractor, GenericPDFExtractor
\* in that order and returns the first whose can_handle is true; the generic PDF
\* extractor is returned only when every earlier can_handle is false.
C3_FirstInPriorityOrder ==
    reg_call.fn = "get_extractor" =>
        /\ can_handle("LinkedInPDFExtractor", reg_call)
              => reg_result.extractor = "LinkedInPDFExtractor"
        /\ (~can_handle("LinkedInPDFExtractor", reg_call)
              /\ can_handle("DOCXExtractor", reg_call))
              => reg_result.extractor = "DOCXExtractor"
        /\ (~can_handle("LinkedInPDFExtractor", reg_call)
              /\ ~can_handle("DOCXExtractor", reg_call)
              /\ can_handle("GenericPDFExtractor", reg_call))
              => reg_result.extractor = "GenericPDFExtractor"
        /\ reg_result.extractor = "GenericPDFExtractor"
              => /\ ~can_handle("LinkedInPDFExtractor", reg_call)
                 /\ ~can_handle("DOCXExtractor", reg_call)

\* a PDF that both the LinkedIn and the generic extractor accept went to LinkedIn
C3_Witness ==
    /\ reg_call.fn = "get_extractor"
    /\ can_handle("GenericPDFExtractor", reg_call)
    /\ reg_result.extractor = "LinkedInPDFExtractor"

\* C4: get_extractor raises a ValueError whose message starts with
\* 'No suitable extractor found', and returns no extractor, exactly when no
\* registered extractor's can_handle is true for the path.
C4_RaisesIffNoneCanHandle ==
    reg_call.fn = "get_extractor" =>
        /\ ~AnyCanHandle(reg_call) <=>
              /\ reg_result.exception = "ValueError"
              /\ startswith(reg_result.message,
                            <<"N","o"," ","s","u","i","t","a","b","l","e"," ","e","x","t",
                              "r","a","c","t","o","r"," ","f","o","u","n","d">>)
        /\ reg_result.exception = "ValueError" <=> reg_result.extractor = "none"

\* get_extractor('test.txt') raised
C4_Witness ==
    /\ reg_call.fn = "get_extractor"
    /\ reg_call.file_path = <<"t","e","s","t",".","t","x","t">>
    /\ reg_result.exception = "ValueError"

\* C5: converter.extract_resume selects its extractor as the registry does: a .pdf
\* path without LinkedIn markers is extracted by GenericPDFExtractor, a .docx path
\* by DOCXExtractor, and an unsupported extension fails with a ValueError matching
\* 'No suitable extractor found'.
C5_ConverterUsesRegistry ==
    reg_call.fn = "extract_resume" =>
        /\ (can_handle("GenericPDFExtractor", reg_call)
              /\ ~can_handle("LinkedInPDFExtractor", reg_call))
              => reg_result.extractor = "GenericPDFExtractor"
        /\ (can_handle("DOCXExtractor", reg_call)
              /\ ~can_handle("LinkedInPDFExtractor", reg_call))
              => reg_result.extractor = "DOCXExtractor"
        /\ ~AnyCanHandle(reg_call)
              => /\ reg_result.exception = "ValueError"
                 /\ contains(reg_result.message,
                             <<"N","o"," ","s","u","i","t","a","b","l","e"," ","e","x","t",
                               "r","a","c","t","o","r"," ","f","o","u","n","d">>)

(***************************************************************************)
(* Europass mapper: core/map/europass_mapper.py                            *)
(***************************************************************************)
HeadlineMax == 500
TitleMax == 100

\* the {Year, Month, Day} dict of a date: Month if truthy, Day if truthy and not 1
map_date(d) ==
    ("Year" :> d.year)
      @@ Put(d.month # 0, "Month", d.month)
      @@ Put(d.day # 0 /\ d.day # 1, "Day", d.day)

B64Alphabet == UpperLetters \o LowerLetters \o DigitSeq \o <<"+", "/">>
B64(n) == B64Alphabet[n + 1]

\* base64.b64encode(data).decode("utf-8"), data a sequence of bytes
RECURSIVE b64encode(_)
b64encode(data) ==
    IF data = <<>> THEN <<>>
    ELSE IF Len(data) = 1
         THEN <<B64(data[1] \div 4), B64((data[1] % 4) * 16), "=", "=">>
    ELSE IF Len(data) = 2
         THEN <<B64(data[1] \div 4), B64((data[1] % 4) * 16 + data[2] \div 16),
                B64((data[2] % 16) * 4), "=">>
    ELSE <<B64(data[1] \div 4), B64((data[1] % 4) * 16 + data[2] \div 16),
           B64((data[2] % 16) * 4 + data[3] \div 64), B64(data[3] % 64)>>
           \o b64encode(SubSeq(data, 4, Len(data)))

country_map == {
    <<<<"n","e","t","h","e","r","l","a","n","d","s">>, <<"N","L">>>>, <<<<"g","e","r","m","a","n","y">>, <<"D","E">>>>, <<<<"b","e","l","g","i","u","m">>, <<"B","E">>>>,
    <<<<"f","r","a","n","c","e">>, <<"F","R">>>>, <<<<"u","n","i","t","e","d"," ","k","i","n","g","d","o","m">>, <<"G","B">>>>, <<<<"u","k">>, <<"G","B">>>>,
    <<<<"u","n","i","t","e","d"," ","s","t","a","t","e","s">>, <<"U","S">>>>, <<<<"u","s","a">>, <<"U","S">>>>, <<<<"s","p","a","i","n">>, <<"E","S">>>>,
    <<<<"i","t","a","l","y">>, <<"I","T">>>>, <<<<"p","o","r","t","u","g","a","l">>, <<"P","T">>>>, <<<<"p","o","l","a","n","d">>, <<"P","L">>>>,
    <<<<"s","w","e","d","e","n">>, <<"S","E">>>>, <<<<"d","e","n","m","a","r","k">>, <<"D","K">>>>, <<<<"n","o","r","w","a","y">>, <<"N","O">>>>,
    <<<<"f","i","n","l","a","n","d">>, <<"F","I">>>>, <<<<"a","u","s","t","r","i","a">>, <<"A","T">>>>, <<<<"s","w","i","t","z","e","r","l","a","n","d">>, <<"C","H">>>>,
    <<<<"i","r","e","l","a","n","d">>, <<"I","E">>>>, <<<<"g","r","e","e","c","e">>, <<"G","R">>>>, <<<<"c","z","e","c","h"," ","r","e","p","u","b","l","i","c">>, <<"C","Z">>>>,
    <<<<"h","u","n","g","a","r","y">>, <<"H","U">>>>, <<<<"r","o","m","a","n","i","a">>, <<"R","O">>>>, <<<<"b","u","l","g","a","r","i","a">>, <<"B","G">>>> }

\* EuropassMapper._get_country_code
get_country_code(country_name) ==
    LET country_lower == strip(lower(country_name))
    IN IF \E e \in country_map : e[1] = country_lower
       THEN (CHOOSE e \in country_map : e[1] = country_lower)[2]
       ELSE upper(Slice(country_name, 0, 2))

isced_labels == {
    <<<<"0">>, <<"E","a","r","l","y"," ","c","h","i","l","d","h","o","o","d"," ","e","d","u","c","a","t","i","o","n">>>>, <<<<"1">>, <<"P","r","i","m","a","r","y"," ","e","d","u","c","a","t","i","o","n">>>>,
    <<<<"2">>, <<"L","o","w","e","r"," ","s","e","c","o","n","d","a","r","y"," ","e","d","u","c","a","t","i","o","n">>>>, <<<<"3">>, <<"U","p","p","e","r"," ","s","e","c","o","n","d","a","r","y"," ","e","d","u","c","a","t","i","o","n">>>>,
    <<<<"4">>, <<"P","o","s","t","-","s","e","c","o","n","d","a","r","y"," ","n","o","n","-","t","e","r","t","i","a","r","y"," ","e","d","u","c","a","t","i","o","n">>>>,
    <<<<"5">>, <<"S","h","o","r","t","-","c","y","c","l","e"," ","t","e","r","t","i","a","r","y"," ","e","d","u","c","a","t","i","o","n">>>>, <<<<"6">>, <<"B","a","c","h","e","l","o","r"," ","o","r"," ","e","q","u","i","v","a","l","e","n","t">>>>,
    <<<<"7">>, <<"M","a","s","t","e","r"," ","o","r"," ","e","q","u","i","v","a","l","e","n","t">>>>, <<<<"8">>, <<"D","o","c","t","o","r","a","l"," ","o","r"," ","e","q","u","i","v","a","l","e","n","t">>>> }

\* EuropassMapper._get_isced_label
get_isced_label(code) ==
    IF \E e \in isced_labels : e[1] = code
    THEN (CHOOSE e \in isced_labels : e[1] = code)[2]
    ELSE <<"L","e","v","e","l"," ">> \o code

Level(code) == [Code |-> code, Label |-> get_isced_label(code)]

master_patterns == {<<"m","a","s","t","e","r">>, <<"m","a","s","t","e","r","'","s">>, <<"m","s","c">>, <<"m",".","s","c">>, <<"m","a">>, <<"m",".","a">>, <<"m","b","a">>}
bachelor_patterns == {<<"b","a","c","h","e","l","o","r">>, <<"b","a","c","h","e","l","o","r","'","s">>, <<"b","s","c">>, <<"b",".","s","c">>, <<"b","a">>, <<"b",".","a">>, <<"b","s">>,
                      <<"b",".","s">>, <<"b","i","c","t">>, <<"b",".","i","c","t">>}

\* a plausible slip: the bachelor rule is tried before the master rule
infer_education_level_bachelor_first(title) ==
    LET title_lower == lower(title)
        has(words) == \E w \in words : contains(title_lower, w)
    IN IF title = <<>> THEN None
       ELSE IF has({<<"p","h","d">>, <<"p","h",".","d">>, <<"d","o","c","t","o","r","a","t","e">>, <<"d","o","c","t","o","r","a","l">>, <<"d","o","c","t","o","r">>})
            THEN Some(Level(<<"8">>))
       ELSE IF \E p \in bachelor_patterns : ReWord(title_lower, p) THEN Some(Level(<<"6">>))
       ELSE IF \E p \in master_patterns : ReWord(title_lower, p) THEN Some(Level(<<"7">>))
       ELSE IF contains(title_lower, <<"p","r","e","m","a","s","t","e","r">>) THEN Some(Level(<<"7">>))
       ELSE IF has({<<"h","b","o">>, <<"a","s","s","o","c","i","a","t","e">>, <<"h","o","g","e","s","c","h","o","o","l">>})
            THEN IF contains(title_lower, <<"b","a","c","h","e","l","o","r">>)
                 THEN Some(Level(<<"6">>)) ELSE Some(Level(<<"5">>))
       ELSE IF has({<<"h","i","g","h"," ","s","c","h","o","o","l">>, <<"s","e","c","o","n","d","a","r","y">>, <<"d","i","p","l","o","m","a">>, <<"h","a","v","o">>, <<"v","w","o">>,
                    <<"g","y","m","n","a","s","i","u","m">>, <<"m","b","o">>, <<"v","o","c","a","t","i","o","n","a","l">>, <<"t","e","c","h","n","i","c","a","l"," ","c","o","l","l","e","g","e">>})
            THEN Some(Level(<<"3">>))
       ELSE None

\* EuropassMapper._infer_education_level: the {Code, Label} dict, or None
infer_education_level(title) ==
    LET title_lower == lower(title)
        has(words) == \E w \in words : contains(title_lower, w)
    IN IF title = <<>> THEN None
       ELSE IF has({<<"p","h","d">>, <<"p","h",".","d">>, <<"d","o","c","t","o","r","a","t","e">>, <<"d","o","c","t","o","r","a","l">>, <<"d","o","c","t","o","r">>})
            THEN Some(Level(<<"8">>))
       ELSE IF \E p \in master_patterns : ReWord(title_lower, p) THEN Some(Level(<<"7">>))
       ELSE IF contains(title_lower, <<"p","r","e","m","a","s","t","e","r">>) THEN Some(Level(<<"7">>))
       ELSE IF /\ \E p \in bachelor_patterns : ReWord(title_lower, p)
               /\ ~ReWord(title_lower, <<"m","a","s","t","e","r">>)
            THEN Some(Level(<<"6">>))
       ELSE IF has({<<"h","b","o">>, <<"a","s","s","o","c","i","a","t","e">>, <<"h","o","g","e","s","c","h","o","o","l">>})
            THEN IF contains(title_lower, <<"b","a","c","h","e","l","o","r">>)
                 THEN Some(Level(<<"6">>)) ELSE Some(Level(<<"5">>))
       ELSE IF has({<<"h","i","g","h"," ","s","c","h","o","o","l">>, <<"s","e","c","o","n","d","a","r","y">>, <<"d","i","p","l","o","m","a">>, <<"h","a","v","o">>, <<"v","w","o">>,
                    <<"g","y","m","n","a","s","i","u","m">>})
            THEN Some(Level(<<"3">>))
       ELSE IF has({<<"m","b","o">>, <<"v","o","c","a","t","i","o","n","a","l">>, <<"t","e","c","h","n","i","c","a","l"," ","c","o","l","l","e","g","e">>}) THEN Some(Level(<<"3">>))
       ELSE None

\* a plausible slip: the photo is emitted whenever the Resume carries one
map_photo_ungated(pi, include_photo) ==
    Put(truthy(pi.photo), "Photo",
        [MimeType |-> <<"i","m","a","g","e","/","j","p","e","g">>, Data |-> b64encode(val(pi.photo))])

\* the Photo entry of _map_identification
map_photo(pi, include_photo) ==
    Put(include_photo /\ truthy(pi.photo), "Photo",
        [MimeType |-> <<"i","m","a","g","e","/","j","p","e","g">>, Data |-> b64encode(val(pi.photo))])

\* EuropassMapper._map_identification: the Identification dict ({} where the
\* code returns None)
map_identification(pi, include_photo) ==
    LET person_name ==
            Put(truthy(pi.first_name), "FirstName", val(pi.first_name))
              @@ Put(truthy(pi.last_name), "Surname", val(pi.last_name))
        contact ==
            Put(truthy(pi.city), "Municipality", val(pi.city))
              @@ Put(truthy(pi.postal_code), "PostalCode", val(pi.postal_code))
              @@ Put(truthy(pi.country), "Country",
                     [Code |-> val(pi.country), Label |-> val(pi.country)])
              @@ Put(truthy(pi.address), "AddressLine", join(<<" ">>, <<val(pi.address)>>))
        contact_info ==
            Put(\/ truthy(pi.address) \/ truthy(pi.city)
                \/ truthy(pi.postal_code) \/ truthy(pi.country),
                "Address", [Contact |-> contact])
              @@ Put(truthy(pi.email), "Email", [Contact |-> val(pi.email)])
              @@ Put(truthy(pi.phone), "Telephone", <<[Contact |-> val(pi.phone)]>>)
        demographics ==
            Put(is_set(pi.date_of_birth), "Birthdate", map_date(val(pi.date_of_birth)))
              @@ Put(truthy(pi.nationality), "Nationality",
                     <<[Code |-> val(pi.nationality), Label |-> val(pi.nationality)]>>)
    IN Put(truthy(pi.first_name) \/ truthy(pi.last_name), "PersonName", person_name)
         @@ Put(~IsEmpty(contact_info), "ContactInfo", contact_info)
         @@ Put(~IsEmpty(demographics), "Demographics", demographics)
         @@ map_photo(pi, include_photo)

\* a plausible slip: Current is emitted for every entry marked current
map_period_current_beside_to(entry) ==
    Put(is_set(entry.start_date), "From", map_date(val(entry.start_date)))
      @@ Put(is_set(entry.end_date), "To", map_date(val(entry.end_date)))
      @@ Put(entry.current, "Current", TRUE)

\* the Period dict shared by _map_work_experience and _map_education
map_period(entry) ==
    Put(is_set(entry.start_date), "From", map_date(val(entry.start_date)))
      @@ (IF is_set(entry.end_date) THEN "To" :> map_date(val(entry.end_date))
          ELSE Put(entry.current, "Current", TRUE))

\* the {ContactInfo: {Address: {Contact: ...}}} of an employer or organisation
map_org_address(entry) ==
    Put(truthy(entry.city) \/ truthy(entry.country), "ContactInfo",
        [Address |-> [Contact |->
            Put(truthy(entry.city), "Municipality", val(entry.city))
              @@ Put(truthy(entry.country), "Country",
                     [Code |-> get_country_code(val(entry.country)),
                      Label |-> val(entry.country)])]])

\* EuropassMapper._map_work_experience
map_work_experience(exp) ==
    LET period == map_period(exp)
        position ==
            ("Label" :> val(exp.position))
              @@ Put(\E keyword \in {<<"d","e","v","e","l","o","p","e","r">>, <<"p","r","o","g","r","a","m","m","e","r">>, <<"s","o","f","t","w","a","r","e">>, <<"e","n","g","i","n","e","e","r">>} :
                        contains(lower(val(exp.position)), keyword),
                     "Code", <<"2","5","1","2">>)
        employer == Put(truthy(exp.employer), "Name", val(exp.employer))
                      @@ map_org_address(exp)
    IN Put(~IsEmpty(period), "Period", period)
         @@ Put(truthy(exp.position), "Position", position)
         @@ (IF truthy(exp.description) THEN "Activities" :> val(exp.description)
             ELSE Put(Len(exp.activities) > 0, "Activities", join(<<"\n">>, exp.activities)))
         @@ Put(~IsEmpty(employer), "Employer", employer)

\* EuropassMapper._map_education
map_education(edu) ==
    LET period == map_period(edu)
        organization == Put(truthy(edu.organization), "Name", val(edu.organization))
                          @@ map_org_address(edu)
        level == infer_education_level(IF truthy(edu.title) THEN val(edu.title) ELSE <<>>)
    IN Put(~IsEmpty(period), "Period", period)
         @@ (IF truthy(edu.title) THEN "Title" :> val(edu.title)
             ELSE Put(truthy(edu.description), "Title",
                      Slice(first_field(val(edu.description), <<"\n">>), 0, TitleMax)))
         @@ Put(truthy(edu.description), "Skills", val(edu.description))
         @@ Put(~IsEmpty(organization), "Organisation", organization)
         @@ (IF truthy(edu.level) THEN "Level" :> Level(val(edu.level))
             ELSE Put(Len(level) > 0, "Level", val(level)))

\* EuropassMapper._map_certification
map_certification(cert) ==
    Put(Len(cert.name) > 0, "Title", [Label |-> cert.name])
      @@ Put(is_set(cert.date), "Date", map_date(val(cert.date)))
      @@ Put(truthy(cert.issuer), "IssuedBy", val(cert.issuer))

computer_keywords == {<<"p","y","t","h","o","n">>, <<"j","a","v","a">>, <<"j","a","v","a","s","c","r","i","p","t">>, <<"s","q","l">>, <<"h","t","m","l">>, <<"c","s","s">>, <<"g","i","t">>,
                      <<"d","o","c","k","e","r">>, <<"k","u","b","e","r","n","e","t","e","s">>, <<"a","w","s">>, <<"a","z","u","r","e">>, <<"l","i","n","u","x">>, <<"w","i","n","d","o","w","s">>}

IsComputerSkill(skill) ==
    \E kw \in computer_keywords : contains(lower(skill.name), kw)

map_language(lang) ==
    ("Description" :> [Label |-> lang.language])
      @@ Put(\/ truthy(lang.listening) \/ truthy(lang.reading)
             \/ truthy(lang.speaking) \/ truthy(lang.writing),
             "ProficiencyLevel",
             Put(truthy(lang.listening), "Listening", val(lang.listening))
               @@ Put(truthy(lang.reading), "Reading", val(lang.reading))
               @@ Put(truthy(lang.speaking), "SpokenInteraction", val(lang.speaking))
               @@ Put(truthy(lang.speaking), "SpokenProduction", val(lang.speaking))
               @@ Put(truthy(lang.writing), "Writing", val(lang.writing)))

Names(skill_list) == [i \in 1..Len(skill_list) |-> skill_list[i].name]

\* EuropassMapper._map_skills: the Skills dict ({} where the code returns None)
map_skills(resume) ==
    LET native == SelectSeq(resume.languages, LAMBDA lang : lang.is_native)
        foreign == SelectSeq(resume.languages, LAMBDA lang : ~lang.is_native)
        computer_skills == Names(SelectSeq(resume.skills, IsComputerSkill))
        other_skills == Names(SelectSeq(resume.skills, LAMBDA s : ~IsComputerSkill(s)))
    IN Put(Len(resume.languages) > 0, "Linguistic",
           [MotherTongue |->
                [i \in 1..Len(native) |-> [Description |-> [Label |-> native[i].language]]],
            ForeignLanguage |-> [i \in 1..Len(foreign) |-> map_language(foreign[i])]])
         @@ Put(Len(computer_skills) > 0, "Computer",
                [Description |-> join(<<","," ">>, computer_skills)])
         @@ Put(Len(other_skills) > 0, "Other", [Description |-> join(<<","," ">>, other_skills)])

\* EuropassMapper.map: the EuropassCV with its DocumentInfo and LearnerInfo
map(resume, include_photo, now) ==
    LET identification == map_identification(resume.personal_info, include_photo)
        skills_dict == map_skills(resume)
    IN [DocumentInfo |->
            [DocumentType |-> <<"E","u","r","o","p","a","s","s"," ","C","V">>, CreationDate |-> now,
             Generator |-> <<"E","u","r","o","C","V">>, XSDVersion |-> <<"V","3",".","3">>],
        LearnerInfo |->
            Put(~IsEmpty(identification), "Identification", identification)
              @@ Put(truthy(resume.summary), "Headline",
                     [Type |-> [Code |-> <<"p","r","e","f","e","r","r","e","d">>, Label |-> <<"H","e","a","d","l","i","n","e">>],
                      Description |-> [Label |-> Slice(val(resume.summary), 0, HeadlineMax)]])
              @@ Put(Len(resume.work_experience) > 0, "WorkExperience",
                     [i \in 1..Len(resume.work_experience) |->
                        map_work_experience(resume.work_experience[i])])
              @@ Put(Len(resume.education) > 0, "Education",
                     [i \in 1..Len(resume.education) |-> map_education(resume.education[i])])
              @@ Put(~IsEmpty(skills_dict), "Skills", skills_dict)
              @@ Put(Len(resume.certifications) > 0, "Achievement",
                     [i \in 1..Len(resume.certifications) |->
                        map_certification(resume.certifications[i])])]

\* EuropassCV.to_json: model_dump(exclude_none=True); both fields are dicts, never None
to_json(cv) == [DocumentInfo |-> cv.DocumentInfo, LearnerInfo |-> cv.LearnerInfo]

(***************************************************************************)
(* Structural validator: core/validate/schema_validator.py                 *)
(***************************************************************************)
ValidationResult(errors) ==
    [exception |-> "none", is_valid |-> Len(errors) = 0, errors |-> errors]

\* the f-string prefixes "WorkExperience[i]" and "Education[i]"
prefix(section, index) == section \o <<"[">> \o int_to_str(index) \o <<"]">>

MissingDocumentInfo == <<"M","i","s","s","i","n","g"," ","r","e","q","u","i","r","e","d"," ","f","i","e","l","d",":"," ","D","o","c","u","m","e","n","t","I","n","f","o">>
MissingLearnerInfo == <<"M","i","s","s","i","n","g"," ","r","e","q","u","i","r","e","d"," ","f","i","e","l","d",":"," ","L","e","a","r","n","e","r","I","n","f","o">>
PersonNameNotDict == <<"I","d","e","n","t","i","f","i","c","a","t","i","o","n",".","P","e","r","s","o","n","N","a","m","e"," ","m","u","s","t"," ","b","e"," ","a"," ","d","i","c","t","i","o","n","a","r","y">>
PersonNameEmpty == <<"I","d","e","n","t","i","f","i","c","a","t","i","o","n",".","P","e","r","s","o","n","N","a","m","e"," ","m","u","s","t"," ","h","a","v","e"," ","a","t"," ","l","e","a","s","t"," ","F","i","r","s","t","N","a","m","e"," ","o","r"," ","S","u","r","n","a","m","e">>
ContactInfoNotDict == <<"I","d","e","n","t","i","f","i","c","a","t","i","o","n",".","C","o","n","t","a","c","t","I","n","f","o"," ","m","u","s","t"," ","b","e"," ","a"," ","d","i","c","t","i","o","n","a","r","y">>
PeriodNeedsFrom(section, index) == prefix(section, index) \o <<".","P","e","r","i","o","d"," ","m","u","s","t"," ","h","a","v","e"," ","a"," ","'","F","r","o","m","'"," ","d","a","t","e">>
NeedsTitle(index) == prefix(<<"E","d","u","c","a","t","i","o","n">>, index) \o <<" ","m","u","s","t"," ","h","a","v","e"," ","a"," ","T","i","t","l","e">>

\* SchemaValidator._validate_identification
validate_identification(identification) ==
    (IF "PersonName" \in DOMAIN identification
     THEN IF ~IsDict(identification.PersonName) THEN <<PersonNameNotDict>>
          ELSE IF /\ "Surname" \notin DOMAIN identification.PersonName
                  /\ "FirstName" \notin DOMAIN identification.PersonName
               THEN <<PersonNameEmpty>>
               ELSE <<>>
     ELSE <<>>)
    \o (IF "ContactInfo" \in DOMAIN identification /\ ~IsDict(identification.ContactInfo)
        THEN <<ContactInfoNotDict>> ELSE <<>>)

\* SchemaValidator._validate_work_experience
validate_work_experience(experience, index) ==
    IF "Period" \in DOMAIN experience /\ "From" \notin DOMAIN experience.Period
    THEN <<PeriodNeedsFrom(<<"W","o","r","k","E","x","p","e","r","i","e","n","c","e">>, index)>> ELSE <<>>

\* SchemaValidator._validate_education
validate_education(education, index) ==
    (IF "Title" \notin DOMAIN education THEN <<NeedsTitle(index)>> ELSE <<>>)
    \o (IF "Period" \in DOMAIN education /\ "From" \notin DOMAIN education.Period
        THEN <<PeriodNeedsFrom(<<"E","d","u","c","a","t","i","o","n">>, index)>> ELSE <<>>)

\* errors.extend(validate(entry, i)) for i, entry in enumerate(entries), from list
\* position k on
RECURSIVE validate_entries(_, _, _)
validate_entries(section, entries, k) ==
    IF k > Len(entries) THEN <<>>
    ELSE (IF section = "WorkExperience"
          THEN validate_work_experience(entries[k], k - 1)
          ELSE validate_education(entries[k], k - 1))
         \o validate_entries(section, entries, k + 1)

validate_learner_info(learner_info) ==
    (IF "Identification" \in DOMAIN learner_info
     THEN validate_identification(learner_info.Identification) ELSE <<>>)
    \o (IF "WorkExperience" \in DOMAIN learner_info
        THEN validate_entries("WorkExperience", learner_info.WorkExperience, 1) ELSE <<>>)
    \o (IF "Education" \in DOMAIN learner_info
        THEN validate_entries("Education", learner_info.Education, 1) ELSE <<>>)

\* a plausible slip: the validator returns at the first section that has an error
validate_json_fail_fast(data) ==
    IF "DocumentInfo" \notin DOMAIN data THEN ValidationResult(<<MissingDocumentInfo>>)
    ELSE IF "LearnerInfo" \notin DOMAIN data THEN ValidationResult(<<MissingLearnerInfo>>)
    ELSE LET li == data.LearnerInfo
             id == IF "Identification" \in DOMAIN li
                   THEN validate_identification(li.Identification) ELSE <<>>
             we == IF "WorkExperience" \in DOMAIN li
                   THEN validate_entries("WorkExperience", li.WorkExperience, 1) ELSE <<>>
             ed == IF "Education" \in DOMAIN li
                   THEN validate_entries("Education", li.Education, 1) ELSE <<>>
         IN ValidationResult(IF Len(id) > 0 THEN id ELSE IF Len(we) > 0 THEN we ELSE ed)

\* SchemaValidator.validate_json.  `"DocumentInfo" not in data` raises TypeError
\* for None and for numbers; for a str or a list it is a membership test that
\* finds neither key.
validate_json(data) ==
    IF ~IsDict(data)
    THEN IF data.py_type \in {"NoneType", "int"}
         THEN [exception |-> "TypeError", is_valid |-> FALSE, errors |-> <<>>]
         ELSE ValidationResult(<<MissingDocumentInfo, MissingLearnerInfo>>)
    ELSE ValidationResult(
            (IF "DocumentInfo" \notin DOMAIN data THEN <<MissingDocumentInfo>> ELSE <<>>)
            \o (IF "LearnerInfo" \notin DOMAIN data THEN <<MissingLearnerInfo>>
                ELSE validate_learner_info(data.LearnerInfo)))

(***************************************************************************)
(* The conversion pipeline: core/converter.py, steps 2 to 4                *)
(***************************************************************************)
MaxEntries == 1

NamePairs == { <<Some(<<"J","a","n">>), Some(<<"J","a","n","s","e","n">>)>>, <<Some(<<"J","a","n">>), None>>,
               <<Some(<<>>), Some(<<"J","a","n","s","e","n">>)>>, <<None, None>> }

\* no photo, zero bytes, and the first bytes of a JPEG file
Photos == { None, Some(<<>>), Some(<<255, 216, 255, 224>>) }

NoContact == [email |-> None, phone |-> None, address |-> None, city |-> None,
              postal_code |-> None, country |-> None, date_of_birth |-> None,
              nationality |-> None]
FullContact == [email |-> Some(<<"j","a","n","@","e","x","a","m","p","l","e",".","n","l">>), phone |-> Some(<<"0","6","-","1","2","3","4","5","6","7","8">>),
                address |-> Some(<<"M","a","r","k","t"," ","1">>), city |-> Some(<<"R","o","o","s","e","n","d","a","a","l">>),
                postal_code |-> Some(<<"4","7","0","2"," ","G","K">>), country |-> Some(<<"N","e","t","h","e","r","l","a","n","d","s">>),
                date_of_birth |-> Some(Date(1990, 3, 15)), nationality |-> Some(<<"D","u","t","c","h">>)]

BareWork == [position |-> None, employer |-> None, city |-> None, country |-> None,
             start_date |-> None, end_date |-> None, current |-> FALSE,
             description |-> None, activities |-> <<>>]

WorkEntries == {
    BareWork,
    [BareWork EXCEPT !.start_date = Some(Date(2020, 1, 1)), !.current = TRUE,
                     !.position = Some(<<"S","o","f","t","w","a","r","e"," ","E","n","g","i","n","e","e","r">>),
                     !.employer = Some(<<"A","c","m","e">>), !.country = Some(<<"N","e","t","h","e","r","l","a","n","d","s">>)],
    [BareWork EXCEPT !.start_date = Some(Date(2018, 3, 1)),
                     !.end_date = Some(Date(2019, 12, 1)),
                     !.description = Some(<<"B","u","i","l","t"," ","t","h","i","n","g","s">>), !.city = Some(<<"B","r","e","d","a">>)],
    [BareWork EXCEPT !.end_date = Some(Date(2017, 6, 30)), !.current = TRUE,
                     !.position = Some(<<"T","e","a","c","h","e","r">>), !.activities = <<<<"a">>, <<"b">>>>,
                     !.country = Some(<<"A","t","l","a","n","t","i","s">>)] }

BareEducation == [title |-> None, organization |-> None, city |-> None, country |-> None,
                  start_date |-> None, end_date |-> None, current |-> FALSE,
                  description |-> None, level |-> None]

EducationEntries == {
    BareEducation,
    [BareEducation EXCEPT !.start_date = Some(Date(2010, 9, 1))],
    [BareEducation EXCEPT !.start_date = Some(Date(2010, 9, 1)),
                          !.end_date = Some(Date(2014, 6, 30)),
                          !.title = Some(<<"M","S","c"," ","I","n","f","o","r","m","a","t","i","c","a">>),
                          !.organization = Some(<<"T","U"," ","D","e","l","f","t">>),
                          !.country = Some(<<"N","e","t","h","e","r","l","a","n","d","s">>)],
    [BareEducation EXCEPT !.start_date = Some(Date(2005, 9, 1)), !.current = TRUE,
                          !.description = Some(<<"H","B","O"," ","B","a","c","h","e","l","o","r","\n","c","u","m"," ","l","a","u","d","e">>)],
    [BareEducation EXCEPT !.end_date = Some(Date(2004, 6, 1)),
                          !.title = Some(<<"V","W","O">>), !.level = Some(<<"3">>),
                          !.city = Some(<<"B","r","e","d","a">>)] }

NoExtras == [languages |-> <<>>, skills |-> <<>>, certifications |-> <<>>, summary |-> None]
FullExtras ==
    [languages |-> << [language |-> <<"D","u","t","c","h">>, listening |-> Some(<<"C","2">>),
                       reading |-> Some(<<"C","2">>), speaking |-> Some(<<"C","2">>),
                       writing |-> Some(<<"C","2">>), is_native |-> TRUE],
                      [language |-> <<"E","n","g","l","i","s","h">>, listening |-> Some(<<"C","1">>),
                       reading |-> None, speaking |-> Some(<<"B","2">>),
                       writing |-> None, is_native |-> FALSE] >>,
     skills |-> << [name |-> <<"P","y","t","h","o","n">>], [name |-> <<"S","c","r","u","m">>] >>,
     certifications |-> << [name |-> <<"A","W","S">>, issuer |-> None,
                            date |-> Some(Date(2021, 1, 1))] >>,
     summary |-> Some(<<"E","n","g","i","n","e","e","r">>)]

\* the lists of at most n elements of S
SeqsUpTo(S, n) == UNION {[1..k -> S] : k \in 0..n}

PersonalInfos ==
    { contact @@ [first_name |-> n[1], last_name |-> n[2], photo |-> p] :
        n \in NamePairs, p \in Photos, contact \in {NoContact, FullContact} }

Resumes ==
    { [personal_info |-> pi, work_experience |-> w, education |-> e] @@ x :
        pi \in PersonalInfos, w \in SeqsUpTo(WorkEntries, MaxEntries),
        e \in SeqsUpTo(EducationEntries, MaxEntries), x \in {NoExtras, FullExtras} }

\* datetime.utcnow().isoformat() at the moment of the call
Clock == { <<"2","0","2","6","-","0","1","-","0","1","T","0","0",":","0","0",":","0","0">> }

ConvInputs == [resume : Resumes, include_photo : BOOLEAN, now : Clock]

\* an extractor has produced a Resume; nothing is mapped yet
ConvInit == /\ conv_in \in ConvInputs
            /\ conv_pc = "start"
            /\ europass = EmptyDict
            /\ json_data = EmptyDict
            /\ validation = EmptyDict
            /\ reg_call = RegIdle
            /\ reg_result = Returned("none")
            /\ ExtractIdle
           /\ ParseIdle
           /\ ServiceIdle

\* convert_to_europass step 2: map_to_europass
MapToEuropass ==
    /\ conv_pc = "start"
    /\ europass' = map(conv_in.resume, conv_in.include_photo, conv_in.now)
    /\ conv_pc' = "mapped"
    /\ UNCHANGED <<conv_in, json_data, validation, regVars, serviceVars, extractVars, parseVars>>

\* convert_to_europass steps 3 and 4: to_json and validate_json
ValidateOutput ==
    /\ conv_pc = "mapped"
    /\ json_data' = to_json(europass)
    /\ validation' = validate_json(to_json(europass))
    /\ conv_pc' = "done"
    /\ UNCHANGED <<conv_in, europass, regVars, serviceVars, extractVars, parseVars>>

ConvNext == MapToEuropass \/ ValidateOutput

SpecConvert == ConvInit /\ [][ConvNext]_vars

\* C1: for every Resume with first and last name whose WorkExperience and Education
\* entries each have a start_date, validate_json(map(resume).to_json()) is valid
\* with no errors, whatever the other fields of the entries are.
C1_RoundTripValid ==
    LET r == conv_in.resume
    IN (/\ conv_pc = "done"
        /\ truthy(r.personal_info.first_name) /\ truthy(r.personal_info.last_name)
        /\ \A i \in 1..Len(r.work_experience) : is_set(r.work_experience[i].start_date)
        /\ \A i \in 1..Len(r.education) : is_set(r.education[i].start_date))
       => /\ validation.exception = "none"
          /\ validation.is_valid
          /\ Len(validation.errors) = 0

\* C2: with include_photo = False the mapped Identification has no Photo key, and
\* Resumes that differ only in personal_info.photo map to the same LearnerInfo.
C2_PhotoGated ==
    (conv_pc # "start" /\ ~conv_in.include_photo) =>
        /\ "Identification" \in DOMAIN europass.LearnerInfo
              => "Photo" \notin DOMAIN europass.LearnerInfo.Identification
        /\ \A p \in Photos :
              map([conv_in.resume EXCEPT !.personal_info.photo = p], FALSE, conv_in.now).LearnerInfo
                = europass.LearnerInfo

\* a Resume that carries photo bytes was mapped with include_photo = False
C2_Witness ==
    /\ conv_pc = "mapped"
    /\ ~conv_in.include_photo
    /\ truthy(conv_in.resume.personal_info.photo)
    /\ "Identification" \in DOMAIN europass.LearnerInfo

(***************************************************************************)
(* The validator on arbitrary JSON: converter.validate_europass            *)
(***************************************************************************)
MaxItems == 2

PersonNameValues == { Scalar("str"), EmptyDict, [FirstName |-> <<"J","a","n">>],
                      [Surname |-> <<"J","a","n","s","e","n">>] }

IdentificationValues ==
    {[PersonName |-> p] : p \in PersonNameValues}
      \cup { [ContactInfo |-> [Email |-> [Contact |-> <<"j","a","n","@","e","x","a","m","p","l","e",".","n","l">>]]],
             [PersonName |-> EmptyDict, ContactInfo |-> Scalar("str")] }

WorkItems == { EmptyDict, [Period |-> EmptyDict], [Period |-> [From |-> [Year |-> 2020]]] }

EducationItems == { EmptyDict, [Title |-> <<"M","S","c">>], [Period |-> [To |-> [Year |-> 2014]]],
                    [Title |-> <<"M","S","c">>, Period |-> [From |-> [Year |-> 2010]]] }

LearnerInfoValues ==
    { Put(has_id, "Identification", id)
        @@ [WorkExperience |-> w, Education |-> e] :
        has_id \in BOOLEAN, id \in IdentificationValues,
        w \in SeqsUpTo(WorkItems, MaxItems), e \in SeqsUpTo(EducationItems, MaxItems) }

JsonInputs ==
    { Scalar("NoneType"), Scalar("int"), Scalar("str"), EmptyDict,
      [DocumentInfo |-> [Generator |-> <<"E","u","r","o","C","V">>]] }
      \cup { Put(has_doc, "DocumentInfo", [Generator |-> <<"E","u","r","o","C","V">>])
               @@ [LearnerInfo |-> li] :
               has_doc \in BOOLEAN, li \in LearnerInfoValues \cup {EmptyDict} }

\* a caller holds some JSON value and has not validated it yet
ValInit == /\ json_data \in JsonInputs
           /\ conv_pc = "json"
           /\ conv_in = EmptyDict
           /\ europass = EmptyDict
           /\ validation = EmptyDict
           /\ reg_call = RegIdle
           /\ reg_result = Returned("none")
           /\ ExtractIdle
           /\ ParseIdle
           /\ ServiceIdle

\* validate_europass(data) for a dict: SchemaValidator().validate_json(data)
ValidateJson ==
    /\ conv_pc = "json"
    /\ validation' = validate_json(json_data)
    /\ conv_pc' = "validated"
    /\ UNCHANGED <<conv_in, europass, json_data, regVars, serviceVars, extractVars, parseVars>>

ValNext == ValidateJson

SpecValidator == ValInit /\ [][ValNext]_vars

\* C6: validate_json never raises: it returns (is_valid, errors) for every input
\* value, and for None it returns is_valid = False with a non-empty error list.
C6_NeverRaises ==
    conv_pc = "validated" =>
        /\ validation.exception = "none"
        /\ (~IsDict(json_data) /\ json_data.py_type = "NoneType")
              => ~validation.is_valid /\ Len(validation.errors) > 0

\* C7: validate_json is not fail-fast: is_valid is True exactly when the error list
\* is empty, and one call reports every violated rule: missing DocumentInfo,
\* missing LearnerInfo, a PersonName that is not a mapping or has neither FirstName
\* nor Surname, each WorkExperience[i] whose Period lacks From, each Education[i]
\* lacking Title, each Education[i] whose Period lacks From.
C7_AllViolationsReported ==
    (conv_pc = "validated" /\ IsDict(json_data)) =>
        LET reported == Range(validation.errors)
            li == json_data.LearnerInfo
            LacksFrom(entry) == "Period" \in DOMAIN entry /\ "From" \notin DOMAIN entry.Period
        IN /\ validation.exception = "none"
           /\ validation.is_valid <=> Len(validation.errors) = 0
           /\ "DocumentInfo" \notin DOMAIN json_data => MissingDocumentInfo \in reported
           /\ "LearnerInfo" \notin DOMAIN json_data => MissingLearnerInfo \in reported
           /\ "LearnerInfo" \in DOMAIN json_data =>
                /\ ("Identification" \in DOMAIN li /\ "PersonName" \in DOMAIN li.Identification) =>
                     /\ ~IsDict(li.Identification.PersonName) => PersonNameNotDict \in reported
                     /\ (/\ IsDict(li.Identification.PersonName)
                         /\ DOMAIN li.Identification.PersonName \cap {"FirstName", "Surname"} = {})
                           => PersonNameEmpty \in reported
                /\ "WorkExperience" \in DOMAIN li =>
                     \A i \in 1..Len(li.WorkExperience) :
                        LacksFrom(li.WorkExperience[i])
                          => PeriodNeedsFrom(<<"W","o","r","k","E","x","p","e","r","i","e","n","c","e">>, i - 1) \in reported
                /\ "Education" \in DOMAIN li =>
                     \A i \in 1..Len(li.Education) :
                        /\ "Title" \notin DOMAIN li.Education[i] => NeedsTitle(i - 1) \in reported
                        /\ LacksFrom(li.Education[i])
                             => PeriodNeedsFrom(<<"E","d","u","c","a","t","i","o","n">>, i - 1) \in reported

\* one call reported a missing DocumentInfo, a bad PersonName, a work entry and an
\* education entry together
C7_Witness ==
    /\ conv_pc = "validated"
    /\ IsDict(json_data)
    /\ Len(validation.errors) >= 4
    /\ MissingDocumentInfo \in Range(validation.errors)
    /\ PersonNameNotDict \in Range(validation.errors)
    /\ PeriodNeedsFrom(<<"W","o","r","k","E","x","p","e","r","i","e","n","c","e">>, 1) \in Range(validation.errors)
    /\ NeedsTitle(1) \in Range(validation.errors)

(***************************************************************************)
(* Language extraction: GenericPDFExtractor._extract_languages and         *)
(* DOCXExtractor._extract_languages                                        *)
(***************************************************************************)
\* Language(language=name): the other fields take the defaults of models.py
Language(name) == [language |-> name, listening |-> None, reading |-> None,
                   speaking |-> None, writing |-> None, is_native |-> FALSE]

\* language.listening = language.reading = language.speaking = language.writing = level
set_levels(language, level) ==
    [language EXCEPT !.listening = Some(level), !.reading = Some(level),
                     !.speaking = Some(level), !.writing = Some(level)]

set_native_flag_only(language) == [language EXCEPT !.is_native = TRUE]

\* the body of the native-keyword loop: the flag and four times "C2"
set_native(language) == [set_levels(language, <<"C","2">>) EXCEPT !.is_native = TRUE]

\* the offsets where cefr_pattern \b([A-C][1-2])\b matches (case-sensitive)
cefr_matches(context) ==
    {i \in 0..(Len(context) - 2) :
        /\ context[i + 1] \in {"A", "B", "C"}
        /\ context[i + 2] \in {"1", "2"}
        /\ Boundary(context, i)
        /\ Boundary(context, i + 2)}

\* re.search(cefr_pattern, context).group(1)
cefr_group(context) ==
    Slice(context, SetMin(cefr_matches(context)), SetMin(cefr_matches(context)) + 2)

\* the language names of a list that re.search(rf"\b{lang}\b", text, re.IGNORECASE) finds
languages_found(language_names, text) ==
    SelectSeq(language_names, LAMBDA lang : ReWord(lower(text), lower(lang)))

generic_language_names ==
    << <<"E","n","g","l","i","s","h">>, <<"D","u","t","c","h">>, <<"G","e","r","m","a","n">>, <<"F","r","e","n","c","h">>, <<"S","p","a","n","i","s","h">>, <<"I","t","a","l","i","a","n">>,
       <<"P","o","r","t","u","g","u","e","s","e">>, <<"C","h","i","n","e","s","e">>, <<"J","a","p","a","n","e","s","e">>, <<"R","u","s","s","i","a","n">>, <<"A","r","a","b","i","c">>, <<"N","e","d","e","r","l","a","n","d","s">> >>

generic_native_keywords ==
    << <<"n","a","t","i","v","e">>, <<"m","o","e","d","e","r","t","a","a","l">>, <<"m","o","t","h","e","r"," ","t","o","n","g","u","e">>, <<"b","i","l","i","n","g","u","a","l">>, <<"t","w","e","e","t","a","l","i","g">> >>

\* proficiency_levels, in the insertion order the loop iterates
proficiency_levels ==
    << <<<<"n","a","t","i","v","e">>, <<"C","2">>>>, <<<<"m","o","e","d","e","r","t","a","a","l">>, <<"C","2">>>>, <<<<"m","o","t","h","e","r"," ","t","o","n","g","u","e">>, <<"C","2">>>>,
       <<<<"b","i","l","i","n","g","u","a","l">>, <<"C","2">>>>, <<<<"t","w","e","e","t","a","l","i","g">>, <<"C","2">>>>,
       <<<<"f","l","u","e","n","t">>, <<"C","2">>>>, <<<<"v","l","o","e","i","e","n","d">>, <<"C","2">>>>, <<<<"e","x","c","e","l","l","e","n","t">>, <<"C","2">>>>,
       <<<<"u","i","t","s","t","e","k","e","n","d">>, <<"C","2">>>>,
       <<<<"a","d","v","a","n","c","e","d">>, <<"C","1">>>>, <<<<"g","e","v","o","r","d","e","r","d">>, <<"C","1">>>>, <<<<"p","r","o","f","i","c","i","e","n","t">>, <<"C","1">>>>,
       <<<<"i","n","t","e","r","m","e","d","i","a","t","e">>, <<"B","1">>>>, <<<<"g","o","o","d">>, <<"B","1">>>>, <<<<"g","o","e","d">>, <<"B","1">>>>,
       <<<<"c","o","n","v","e","r","s","a","t","i","o","n","a","l">>, <<"B","1">>>>,
       <<<<"b","a","s","i","c">>, <<"A","2">>>>, <<<<"e","l","e","m","e","n","t","a","r","y">>, <<"A","2">>>>, <<<<"b","e","g","i","n","n","e","r">>, <<"A","1">>>>,
       <<<<"l","i","m","i","t","e","d">>, <<"A","2">>>>, <<<<"b","e","p","e","r","k","t">>, <<"A","2">>>> >>

\* the body of the loop of GenericPDFExtractor._extract_languages for one name
generic_language(text, lang) ==
    LET language == Language(lang)
        lang_pos == find(lower(text), lower(lang))
        context == Slice(text, Max(0, lang_pos - 100), lang_pos + 150)
        context_near == Slice(text, Max(0, lang_pos - 50), lang_pos + 50)
        is_native == \E k \in 1..Len(generic_native_keywords) :
                        ReWord(lower(context), generic_native_keywords[k])
        hits == {k \in 1..Len(proficiency_levels) :
                    ReWord(lower(context_near), proficiency_levels[k][1])}
        prof_keyword == proficiency_levels[SetMin(hits)][1]
        cefr_level == proficiency_levels[SetMin(hits)][2]
    IN IF lang_pos < 0 THEN language
       ELSE IF is_native THEN set_native(language)
       ELSE IF cefr_matches(context) # {} THEN set_levels(language, cefr_group(context))
       ELSE IF hits # {}
            THEN IF prof_keyword \in Range(generic_native_keywords)
                 THEN [set_levels(language, cefr_level) EXCEPT !.is_native = TRUE]
                 ELSE set_levels(language, cefr_level)
       ELSE set_levels(language, <<"B","1">>)

GenericPDFExtractor_extract_languages(text) ==
    LET found == languages_found(generic_language_names, text)
    IN [i \in 1..Len(found) |-> generic_language(text, found[i])]

docx_language_names ==
    << <<"E","n","g","l","i","s","h">>, <<"E","n","g","e","l","s">>, <<"D","u","t","c","h">>, <<"N","e","d","e","r","l","a","n","d","s">>, <<"G","e","r","m","a","n">>, <<"D","u","i","t","s">>,
       <<"F","r","e","n","c","h">>, <<"F","r","a","n","s">>, <<"S","p","a","n","i","s","h">>, <<"S","p","a","a","n","s">>, <<"I","t","a","l","i","a","n">>, <<"I","t","a","l","i","a","a","n","s">>,
       <<"P","o","r","t","u","g","u","e","s","e">>, <<"C","h","i","n","e","s","e">>, <<"J","a","p","a","n","e","s","e">>, <<"R","u","s","s","i","a","n">>, <<"A","r","a","b","i","c">> >>

\* language_normalize.get(lang.lower(), lang)
language_normalize(lang) ==
    CASE lower(lang) = <<"e","n","g","e","l","s">> -> <<"E","n","g","l","i","s","h">>
      [] lower(lang) = <<"n","e","d","e","r","l","a","n","d","s">> -> <<"D","u","t","c","h">>
      [] lower(lang) = <<"d","u","i","t","s">> -> <<"G","e","r","m","a","n">>
      [] lower(lang) = <<"f","r","a","n","s">> -> <<"F","r","e","n","c","h">>
      [] lower(lang) = <<"s","p","a","a","n","s">> -> <<"S","p","a","n","i","s","h">>
      [] lower(lang) = <<"i","t","a","l","i","a","a","n","s">> -> <<"I","t","a","l","i","a","n">>
      [] OTHER -> lang

docx_native_keywords == << <<"n","a","t","i","v","e">>, <<"m","o","e","d","e","r","t","a","a","l">>, <<"m","o","t","h","e","r"," ","t","o","n","g","u","e">> >>

\* proficiency_map, in the insertion order the loop iterates
proficiency_map ==
    << <<<<"n","a","t","i","v","e">>, <<"C","2">>>>, <<<<"m","o","e","d","e","r","t","a","a","l">>, <<"C","2">>>>, <<<<"m","o","t","h","e","r"," ","t","o","n","g","u","e">>, <<"C","2">>>>,
       <<<<"b","i","l","i","n","g","u","a","l">>, <<"C","2">>>>, <<<<"f","l","u","e","n","t">>, <<"C","2">>>>, <<<<"v","l","o","e","i","e","n","d">>, <<"C","2">>>>,
       <<<<"z","e","e","r"," ","g","o","e","d">>, <<"C","1">>>>, <<<<"g","o","e","d">>, <<"B","2">>>>, <<<<"r","e","d","e","l","i","j","k">>, <<"B","1">>>>,
       <<<<"b","a","s","i","c">>, <<"A","2">>>>, <<<<"e","l","e","m","e","n","t","a","r","y">>, <<"A","1">>>> >>

\* the body of the loop of DOCXExtractor._extract_languages for one name
docx_language(text, lang) ==
    LET language == Language(language_normalize(lang))
        lang_pos == find(lower(text), lower(lang))
        context == Slice(text, Max(0, lang_pos - 50), lang_pos + 150)
        is_native == \E k \in 1..Len(docx_native_keywords) :
                        contains(lower(context), docx_native_keywords[k])
        hits == {k \in 1..Len(proficiency_map) :
                    contains(lower(context), proficiency_map[k][1])}
        keyword == proficiency_map[SetMin(hits)][1]
        level == proficiency_map[SetMin(hits)][2]
    IN IF lang_pos < 0 THEN language
       ELSE IF is_native THEN set_native(language)
       ELSE IF cefr_matches(context) # {} THEN set_levels(language, cefr_group(context))
       ELSE IF hits # {}
            THEN IF keyword \in Range(docx_native_keywords)
                 THEN [set_levels(language, level) EXCEPT !.is_native = TRUE]
                 ELSE set_levels(language, level)
       ELSE language

DOCXExtractor_extract_languages(text) ==
    LET found == languages_found(docx_language_names, text)
    IN [i \in 1..Len(found) |-> docx_language(text, found[i])]

\* the lines a languages section is made of
MaxLines == 3

\* a line on which the word "native" is only the tail of another word, 50
\* characters before the language name
AlternativeLine ==
    <<"a","l","t","e","r","n","a","t","i","v","e"," ","f","o","r","m","s"," ","o","f"," ","d","i","s","p","u","t","e"," ","r","e","s","o","l","u","t","i","o","n"," ","i","n"," ","c","o","n","t","r","a","c","t","s"," ","-"," ","R","u","s","s","i","a","n">>

\* a line of 160 characters that names no language, keyword or level
LongLine ==
    <<"C","o","u","r","s","e","s",","," ","w","o","r","k","s","h","o","p","s"," ","a","n","d"," ","c","o","n","f","e","r","e","n","c","e","s"," ","a","t","t","e","n","d","e","d"," ","a","r","e"," ","l","i","s","t","e","d"," ","o","n"," ","t","h","e"," ","f","o","l","l","o","w","i","n","g"," ","p","a","g","e","s",","," ","t","o","g","e","t","h","e","r"," ","w","i","t","h"," ","p","u","b","l","i","c","a","t","i","o","n","s",","," ","r","e","f","e","r","e","n","c","e","s"," ","a","n","d"," ","v","o","l","u","n","t","e","e","r"," ","w","o","r","k"," ","f","o","r"," ","t","h","e"," ","l","o","c","a","l"," ","c","o","m","m","u","n","i","t","y">>

LanguageLines ==
    { <<"D","u","t","c","h"," ","-"," ","N","a","t","i","v","e">>, <<"E","n","g","l","i","s","h"," ","-"," ","C","1">>, <<"G","e","r","m","a","n">>, <<"F","r","a","n","s"," ","-"," ","v","l","o","e","i","e","n","d">>,
      <<"N","e","d","e","r","l","a","n","d","s"," ","(","m","o","e","d","e","r","t","a","a","l",")">>, <<"S","p","a","n","i","s","h",":"," ","b","i","l","i","n","g","u","a","l">>, AlternativeLine, LongLine }

LanguageTexts == {join(<<"\n">>, lines) : lines \in SeqsUpTo(LanguageLines, MaxLines)}

\* a languages section has been cut out of a document; no extractor has run
LangInit == /\ section_text \in LanguageTexts
            /\ extract_by = "none"
            /\ languages = <<>>
            /\ skills = <<>>
            /\ reg_call = RegIdle
            /\ reg_result = Returned("none")
            /\ conv_in = EmptyDict
            /\ conv_pc = "idle"
            /\ europass = EmptyDict
            /\ json_data = EmptyDict
            /\ validation = EmptyDict
            /\ ParseIdle
            /\ ServiceIdle

\* GenericPDFExtractor.extract: resume.languages = self._extract_languages(...)
GenericExtractLanguages ==
    /\ extract_by = "none"
    /\ extract_by' = "generic"
    /\ languages' = GenericPDFExtractor_extract_languages(section_text)
    /\ UNCHANGED <<section_text, skills, regVars, serviceVars, convVars, parseVars>>

\* DOCXExtractor.extract: resume.languages = self._extract_languages(...)
DOCXExtractLanguages ==
    /\ extract_by = "none"
    /\ extract_by' = "docx"
    /\ languages' = DOCXExtractor_extract_languages(section_text)
    /\ UNCHANGED <<section_text, skills, regVars, serviceVars, convVars, parseVars>>

LangNext == GenericExtractLanguages \/ DOCXExtractLanguages

SpecLanguages == LangInit /\ [][LangNext]_vars

\* C8: from the two-line text "Dutch - Native" / "English - C1" both extractors
\* return exactly two Language records: Dutch with is_native = True and all four
\* axes "C2", and English with is_native = False and all four axes "C1".
C8_TwoLineScenario ==
    (extract_by \in {"generic", "docx"} /\ section_text = <<"D","u","t","c","h"," ","-"," ","N","a","t","i","v","e","\n","E","n","g","l","i","s","h"," ","-"," ","C","1">>) =>
        /\ Len(languages) = 2
        /\ Range(languages) =
             { set_native(Language(<<"D","u","t","c","h">>)), set_levels(Language(<<"E","n","g","l","i","s","h">>), <<"C","1">>) }

AllC2(language) ==
    /\ language.listening = Some(<<"C","2">>)
    /\ language.reading = Some(<<"C","2">>)
    /\ language.speaking = Some(<<"C","2">>)
    /\ language.writing = Some(<<"C","2">>)

\* C9: every Language record either extractor returns with is_native = True has
\* listening, reading, speaking and writing all equal to "C2", whichever path set
\* the flag (the native-keyword check or the proficiency-keyword table).
C9_NativeImpliesC2 ==
    \A i \in 1..Len(languages) : languages[i].is_native => AllC2(languages[i])

\* the generic extractor took both paths on one text: Dutch is native by the
\* native-keyword check, and Russian, 160 characters further on, by the
\* proficiency-keyword table, whose narrower window starts inside "alternative"
C9_Witness ==
    /\ extract_by = "generic"
    /\ section_text = join(<<"\n">>, << <<"D","u","t","c","h"," ","-"," ","N","a","t","i","v","e">>, LongLine, AlternativeLine >>)
    /\ \E i, j \in 1..Len(languages) :
          /\ languages[i].language = <<"D","u","t","c","h">> /\ languages[i].is_native
          /\ languages[j].language = <<"R","u","s","s","i","a","n">> /\ languages[j].is_native

\* the English names of the languages the extractors know
CanonicalNames ==
    {<<"E","n","g","l","i","s","h">>, <<"D","u","t","c","h">>, <<"G","e","r","m","a","n">>, <<"F","r","e","n","c","h">>, <<"S","p","a","n","i","s","h">>, <<"I","t","a","l","i","a","n">>, <<"P","o","r","t","u","g","u","e","s","e">>,
     <<"C","h","i","n","e","s","e">>, <<"J","a","p","a","n","e","s","e">>, <<"R","u","s","s","i","a","n">>, <<"A","r","a","b","i","c">>}

\* C26: every Language record carries the English canonical name of the language
\* (Dutch for Nederlands, English for Engels, German for Duits, French for Frans,
\* Spanish for Spaans, Italian for Italiaans), from the language extraction of
\* GenericPDFExtractor and of DOCXExtractor alike.
C26_EnglishCanonicalName ==
    \A i \in 1..Len(languages) : languages[i].language \in CanonicalNames

(***************************************************************************)
(* Skill extraction: GenericPDFExtractor._extract_skills and               *)
(* DOCXExtractor._extract_skills                                           *)
(***************************************************************************)
\* the characters of the source outside ASCII, each one character of a string
Bullet == "U+2022"
MiddleDot == "U+00B7"
EnDash == "U+2013"
EmDash == "U+2014"

\* re.split(r"[,•\n·|]", text): the pieces between any of the delimiters
skill_delimiters == {",", Bullet, "\n", MiddleDot, "|"}

RECURSIVE split_chars(_, _)
split_chars(s, delims) ==
    LET hits == {i \in 1..Len(s) : s[i] \in delims}
    IN IF hits = {} THEN <<s>>
       ELSE <<SubSeq(s, 1, SetMin(hits) - 1)>>
              \o split_chars(SubSeq(s, SetMin(hits) + 1, Len(s)), delims)

\* the length of the run of whitespace that starts at the i-th character
RECURSIVE space_run(_, _)
space_run(s, i) == IF i <= Len(s) /\ s[i] \in Whitespace THEN 1 + space_run(s, i + 1) ELSE 0

\* re.split(r"\s{2,}|\n", text): a separator is a run of two or more whitespace
\* characters, or one newline
RECURSIVE split_spaces(_)
split_spaces(s) ==
    LET starts == {i \in 1..Len(s) : space_run(s, i) >= 2 \/ s[i] = "\n"}
        i == SetMin(starts)
        width == IF space_run(s, i) >= 2 THEN space_run(s, i) ELSE 1
    IN IF starts = {} THEN <<s>>
       ELSE <<SubSeq(s, 1, i - 1)>> \o split_spaces(SubSeq(s, i + width, Len(s)))

\* s[i:] starts with at least lo whitespace characters and then four digits
SpacesThenYear(s, i, lo) ==
    LET n == space_run(s, i + 1)
    IN /\ n >= lo
       /\ i + n + 4 <= Len(s)
       /\ \A k \in 1..4 : s[i + n + k] \in Digits

\* re.match(r"^[\d\s\-/]+$", item)
only_numbers(item) ==
    /\ Len(item) > 0
    /\ \A i \in 1..Len(item) : item[i] \in Digits \cup Whitespace \cup {"-", "/"}

\* re.search(r"^page\s+\d+$", item, re.IGNORECASE)
page_number(item) ==
    LET n == space_run(item, 5)
    IN /\ startswith(lower(item), <<"p","a","g","e">>)
       /\ n >= 1
       /\ 4 + n < Len(item)
       /\ \A i \in (5 + n)..Len(item) : item[i] \in Digits

\* re.search(r"\d{4}\s*[-–—]\s*\d{4}", item)
date_range(item) ==
    \E i \in 0..Len(item) :
        /\ i + 4 <= Len(item)
        /\ \A k \in 1..4 : item[i + k] \in Digits
        /\ LET n == space_run(item, i + 5)
           IN /\ i + 4 + n < Len(item)
              /\ item[i + 5 + n] \in {"-", EnDash, EmDash}
              /\ SpacesThenYear(item, i + 5 + n, 0)

month_names ==
    { <<"J","a","n">>, <<"F","e","b">>, <<"M","a","r">>, <<"A","p","r">>, <<"M","a","y">>, <<"J","u","n">>,
      <<"J","u","l">>, <<"A","u","g">>, <<"S","e","p">>, <<"O","c","t">>, <<"N","o","v">>, <<"D","e","c">> }

\* re.search(r"(Jan|Feb|Mar|Apr|May|Jun|Jul|Aug|Sep|Oct|Nov|Dec)\s+\d{4}", item)
month_year(item) ==
    \E i \in 0..Len(item) :
        /\ \E month \in month_names : MatchAt(item, i, month)
        /\ SpacesThenYear(item, i + 3, 1)

generic_noise_words ==
    { <<"s","k","i","l","l","s">>, <<"e","x","p","e","r","i","e","n","c","e">>, <<"p","r","o","f","i","c","i","e","n","t">>, <<"k","n","o","w","l","e","d","g","e">>, <<"f","a","m","i","l","i","a","r">>, <<"a","n","d">>, <<"o","r">>,
      <<"i","n","c","l","u","d","i","n","g">>, <<"s","u","c","h"," ","a","s">>, <<"e","t","c">>, <<"y","e","a","r","s">>, <<"p","a","g","e">>, <<"v","a","a","r","d","i","g","h","e","d","e","n">>,
      <<"c","o","m","p","e","t","e","n","t","i","e","s">>, <<"e","x","p","e","r","t","i","s","e">>, <<"c","o","m","p","e","t","e","n","c","i","e","s">>, <<"t","e","c","h","n","i","c","a","l">>, <<"t","o","o","l","s">>,
      <<"t","e","c","h","n","o","l","o","g","i","e","s">>, <<"s","o","f","t","w","a","r","e">>, <<"p","r","o","g","r","a","m","m","i","n","g">>, <<"l","a","n","g","u","a","g","e","s">>, <<"t","a","l","e","n">>, <<"s","t","r","o","n","g">>,
      <<"w","o","r","k","i","n","g">>, <<"u","n","d","e","r","s","t","a","n","d","i","n","g">> }

\* section_header_pattern.match(item), which ignores case
section_header(item) ==
    lower(item) \in
        { <<"v","a","a","r","d","i","g","h","e","d","e","n">>, <<"s","k","i","l","l","s">>, <<"c","o","m","p","e","t","e","n","t","i","e","s">>, <<"e","r","v","a","r","i","n","g">>, <<"e","x","p","e","r","i","e","n","c","e">>,
          <<"o","p","l","e","i","d","i","n","g">>, <<"e","d","u","c","a","t","i","o","n">>, <<"t","a","l","e","n">>, <<"l","a","n","g","u","a","g","e","s">>, <<"c","e","r","t","i","f","i","c","a","t","e","n">>,
          <<"c","e","r","t","i","f","i","c","a","t","i","o","n">>, <<"c","e","r","t","i","f","i","c","a","t","i","o","n","s">> }

\* len(item.split()): the number of words
word_count(item) ==
    Cardinality({i \in 1..Len(item) :
                    /\ item[i] \notin Whitespace
                    /\ (i = 1 \/ item[i - 1] \in Whitespace)})

description_phrases ==
    { <<"r","e","s","p","o","n","s","i","b","l","e"," ","f","o","r">>, <<"w","o","r","k","i","n","g"," ","w","i","t","h">>, <<"e","x","p","e","r","i","e","n","c","e"," ","w","i","t","h">>, <<"k","n","o","w","l","e","d","g","e"," ","o","f">>,
      <<"v","e","r","a","n","t","w","o","o","r","d","e","l","i","j","k"," ","v","o","o","r">>, <<"e","r","v","a","r","i","n","g"," ","m","e","t">> }

\* digit_ratio > 0.5
mostly_digits(item) == 2 * Cardinality({i \in 1..Len(item) : item[i] \in Digits}) > Len(item)

\* the length test both extractors start with
bad_length(item) == Len(item) < 2 \/ Len(item) > 80

\* the tests of GenericPDFExtractor._extract_skills that end in `continue`
generic_skips(item) ==
    \/ bad_length(item)
    \/ only_numbers(item)
    \/ page_number(item)
    \/ date_range(item)
    \/ month_year(item)
    \/ lower(item) \in generic_noise_words
    \/ section_header(item)
    \/ word_count(item) > 10
    \/ \E phrase \in description_phrases : contains(lower(item), phrase)
    \/ mostly_digits(item)

docx_noise_words ==
    { <<"s","k","i","l","l","s">>, <<"e","x","p","e","r","t","i","s","e">>, <<"s","o","f","t","w","a","r","e">>, <<"k","e","n","n","i","s">>, <<"v","a","a","r","d","i","g","h","e","d","e","n">>, <<"a","n","d">>, <<"o","r">>,
      <<"i","n","c","l","u","d","i","n","g">>, <<"e","t","c">> }

\* the tests of DOCXExtractor._extract_skills that end in `continue`
docx_skips(item) ==
    \/ bad_length(item)
    \/ only_numbers(item)
    \/ lower(item) \in docx_noise_words
    \/ page_number(item)

normalize_lower_only(item) == lower(item)

\* re.sub(r"[^\w]", "", item.lower())
normalize_skill(item) == SelectSeq(lower(item), IsWordChar)

\* Skill(name=item)
Skill(item) == [name |-> item]

\* [item.strip() for item in skill_items]
stripped(skill_items) == [i \in 1..Len(skill_items) |-> strip(skill_items[i])]

\* the filter of the extractor named
skips(extractor, item) ==
    IF extractor = "generic" THEN generic_skips(item) ELSE docx_skips(item)

\* the loop over the stripped items: an item the filter skips, or one whose
\* normalized form is in seen_skills, adds nothing
RECURSIVE skill_loop(_, _, _)
skill_loop(extractor, items, seen_skills) ==
    IF items = <<>> THEN <<>>
    ELSE IF skips(extractor, Head(items)) \/ normalize_skill(Head(items)) \in seen_skills
         THEN skill_loop(extractor, Tail(items), seen_skills)
    ELSE <<Skill(Head(items))>>
           \o skill_loop(extractor, Tail(items),
                         seen_skills \cup {normalize_skill(Head(items))})

\* skill_items of the generic extractor, stripped: the second split is used when
\* the first one gives fewer than three pieces
generic_skill_items(text) ==
    IF Len(split_chars(text, skill_delimiters)) < 3
    THEN stripped(split_spaces(text))
    ELSE stripped(split_chars(text, skill_delimiters))

GenericPDFExtractor_extract_skills(text) ==
    skill_loop("generic", generic_skill_items(text), {})

\* skill_items of the DOCX extractor, stripped
docx_skill_items(text) == stripped(split_chars(text, skill_delimiters))

DOCXExtractor_extract_skills(text) ==
    skill_loop("docx", docx_skill_items(text), {})

\* the items of a section that pass the filter of the extractor named
candidates(extractor, text) ==
    SelectSeq(IF extractor = "generic" THEN generic_skill_items(text)
                                       ELSE docx_skill_items(text),
              LAMBDA item : ~skips(extractor, item))

\* the entries a skills section is made of, and what stands between them
MaxSkills == 3

SkillNames ==
    { <<"P","y","t","h","o","n">>, <<"p","y","t","h","o","n">>, <<"P","Y","T","H","O","N">>, <<"N","o","d","e",".","j","s">>, <<"N","o","d","e","J","S">>, <<"o","r">>, <<"O","R",".">> }

SkillSeparators == { <<","," ">>, <<" "," ">>, <<"\n">> }

SkillTexts ==
    {join(sep, names) : sep \in SkillSeparators, names \in SeqsUpTo(SkillNames, MaxSkills)}

\* a skills section has been cut out of a document; no extractor has run
SkillInit == /\ section_text \in SkillTexts
             /\ extract_by = "none"
             /\ languages = <<>>
             /\ skills = <<>>
             /\ reg_call = RegIdle
             /\ reg_result = Returned("none")
             /\ conv_in = EmptyDict
             /\ conv_pc = "idle"
             /\ europass = EmptyDict
             /\ json_data = EmptyDict
             /\ validation = EmptyDict
             /\ ParseIdle
             /\ ServiceIdle

\* GenericPDFExtractor.extract: resume.skills = self._extract_skills(...)
GenericExtractSkills ==
    /\ extract_by = "none"
    /\ extract_by' = "generic"
    /\ skills' = GenericPDFExtractor_extract_skills(section_text)
    /\ UNCHANGED <<section_text, languages, regVars, serviceVars, convVars, parseVars>>

\* DOCXExtractor.extract: resume.skills = self._extract_skills(...)
DOCXExtractSkills ==
    /\ extract_by = "none"
    /\ extract_by' = "docx"
    /\ skills' = DOCXExtractor_extract_skills(section_text)
    /\ UNCHANGED <<section_text, languages, regVars, serviceVars, convVars, parseVars>>

SkillNext == GenericExtractSkills \/ DOCXExtractSkills

SpecSkills == SkillInit /\ [][SkillNext]_vars

\* a name without its non-word characters, in lower case
NormalForm(name) == lower(SelectSeq(name, IsWordChar))

\* no two of the returned Skills have the same normal form
NoDuplicateSkills ==
    \A i, j \in 1..Len(skills) : i # j => NormalForm(skills[i].name) # NormalForm(skills[j].name)

\* every returned name is the first of `items` with its normal form
FirstOccurrenceOf(items) ==
    \A i \in 1..Len(skills) :
        LET same == {k \in 1..Len(items) : NormalForm(items[k]) = NormalForm(skills[i].name)}
        IN same # {} /\ skills[i].name = items[SetMin(same)]

PythonThreeTimes ==
    section_text = <<"P","y","t","h","o","n",","," ","p","y","t","h","o","n",","," ","P","Y","T","H","O","N">> => skills = <<Skill(<<"P","y","t","h","o","n">>)>>

\* C10 as stated: no two returned Skills have names that are equal after
\* lower-casing and removing every non-word character; the name kept for a
\* normalized form is its first occurrence in the input, with its casing; and
\* "Python, python, PYTHON" yields exactly one Skill, named "Python".
C10_FirstOccurrenceInInput ==
    /\ extract_by = "generic" =>
          /\ NoDuplicateSkills
          /\ FirstOccurrenceOf(generic_skill_items(section_text))
          /\ PythonThreeTimes
    /\ extract_by = "docx" =>
          /\ NoDuplicateSkills
          /\ FirstOccurrenceOf(docx_skill_items(section_text))
          /\ PythonThreeTimes

\* C10, amended: no two returned Skills have names that are equal after
\* lower-casing and removing every non-word character; the name kept for a
\* normalized form is its first occurrence among the items that pass the
\* extractor's filters (length, numbers, page numbers, noise words, ...), with its
\* casing; and "Python, python, PYTHON" yields exactly one Skill, named "Python".
C10_FirstOccurrenceAmongKept ==
    /\ extract_by = "generic" =>
          /\ NoDuplicateSkills
          /\ FirstOccurrenceOf(candidates("generic", section_text))
          /\ PythonThreeTimes
    /\ extract_by = "docx" =>
          /\ NoDuplicateSkills
          /\ FirstOccurrenceOf(candidates("docx", section_text))
          /\ PythonThreeTimes

\* the DOCX extractor dropped the noise word "or", kept "OR." and then dropped
\* the second "OR." as a duplicate
C10_Witness ==
    /\ extract_by = "docx"
    /\ section_text = <<"o","r",","," ","O","R",".",","," ","O","R",".">>
    /\ skills = <<Skill(<<"O","R",".">>)>>

\* names the generic filter keeps, no two with the same normal form
DistinctValidNames(names) ==
    /\ names # <<>>
    /\ \A i \in 1..Len(names) : ~generic_skips(names[i])
    /\ \A i, j \in 1..Len(names) : i # j => NormalForm(names[i]) # NormalForm(names[j])

\* C29: from a skills text of k distinct valid skill names separated by ", ", the
\* skill extraction of GenericPDFExtractor returns exactly k Skill records, one
\* for each name in order, for every k >= 1, also for k = 1 and k = 2 where the
\* split for too few pieces is taken.
C29_OneSkillPerName ==
    extract_by = "generic" =>
        \A names \in SeqsUpTo(SkillNames, MaxSkills) :
            (DistinctValidNames(names) /\ section_text = join(<<","," ">>, names))
                => skills = [i \in 1..Len(names) |-> Skill(names[i])]

(***************************************************************************)
(* Section splitting: GenericPDFExtractor._split_into_sections             *)
(***************************************************************************)
\* section_patterns in the order the dict is built: the name the section gets
\* and the keywords of SECTION_HEADERS that announce it
section_patterns ==
    << <<"experience", { <<"w","o","r","k"," ","e","x","p","e","r","i","e","n","c","e">>, <<"e","x","p","e","r","i","e","n","c","e">>, <<"e","m","p","l","o","y","m","e","n","t">>, <<"e","r","v","a","r","i","n","g">>,
                         <<"w","e","r","k","e","r","v","a","r","i","n","g">>, <<"p","r","o","f","e","s","s","i","o","n","a","l"," ","e","x","p","e","r","i","e","n","c","e">> }>>,
       <<"education", { <<"e","d","u","c","a","t","i","o","n">>, <<"a","c","a","d","e","m","i","c">>, <<"o","p","l","e","i","d","i","n","g">>, <<"o","n","d","e","r","w","i","j","s">>, <<"s","t","u","d","i","e","s">> }>>,
       <<"skills", { <<"s","k","i","l","l","s">>, <<"c","o","m","p","e","t","e","n","c","i","e","s">>, <<"v","a","a","r","d","i","g","h","e","d","e","n">>, <<"c","o","m","p","e","t","e","n","t","i","e","s">>,
                     <<"e","x","p","e","r","t","i","s","e">> }>>,
       <<"language", { <<"l","a","n","g","u","a","g","e","s">>, <<"t","a","l","e","n">>, <<"l","a","n","g","u","a","g","e"," ","s","k","i","l","l","s">> }>>,
       <<"certification", { <<"c","e","r","t","i","f","i","c","a","t","i","o","n","s">>, <<"c","e","r","t","i","f","i","c","a","t","e","s">>, <<"c","e","r","t","i","f","i","c","a","t","e","n">>,
                            <<"l","i","c","e","n","s","e","s">> }>>,
       <<"summary", { <<"s","u","m","m","a","r","y">>, <<"p","r","o","f","i","l","e">>, <<"a","b","o","u","t">>, <<"s","a","m","e","n","v","a","t","t","i","n","g">>, <<"p","r","o","f","i","e","l">> }>> >>

\* the offsets where ^ matches under re.MULTILINE
line_starts(text) == {0} \cup {i \in 1..Len(text) : text[i] = "\n"}

\* the offset where $ first matches at or after offset p
line_end(text, p) ==
    LET newlines == {i \in (p + 1)..Len(text) : text[i] = "\n"}
    IN IF newlines = {} THEN Len(text) ELSE SetMin(newlines) - 1

\* a string without its leading and trailing [ \t]*
RECURSIVE strip_blanks(_)
strip_blanks(s) ==
    IF s # <<>> /\ s[1] \in {" ", "\t"} THEN strip_blanks(Tail(s))
    ELSE IF s # <<>> /\ s[Len(s)] \in {" ", "\t"} THEN strip_blanks(SubSeq(s, 1, Len(s) - 1))
    ELSE s

\* the starts of the matches of (?im)^[ \t]*(kw1|kw2|...)[ \t]*$
header_starts(text, keywords) ==
    {p \in line_starts(text) :
        lower(strip_blanks(Slice(text, p, line_end(text, p)))) \in keywords}

\* section_positions after the sort: for each section that has a standalone
\* header, (match.start(), section_key, match.group()) of its first match
section_positions(text) ==
    LET found == {k \in 1..Len(section_patterns) :
                     header_starts(text, section_patterns[k][2]) # {}}
        first(k) == SetMin(header_starts(text, section_patterns[k][2]))
        P == {[start |-> first(k), key |-> section_patterns[k][1],
               header |-> Slice(text, first(k), line_end(text, first(k)))] : k \in found}
    IN [i \in 1..Cardinality(P) |->
          CHOOSE p \in P : Cardinality({q \in P : q.start < p.start}) = i - 1]

sidebar_sections == {"language", "certification", "contact"}

section_end_next_header(text, positions, i) ==
    IF i + 1 <= Len(positions) THEN positions[i + 1].start ELSE Len(text)

\* the end of the i-th section: the experience section runs on over sidebar
\* headers to the next other header, any other section ends at the next header
section_end(text, positions, i) ==
    IF i + 1 <= Len(positions)
    THEN IF positions[i].key = "experience"
         THEN LET major == {j \in (i + 1)..Len(positions) :
                               positions[j].key \notin sidebar_sections}
              IN IF major = {} THEN Len(text) ELSE positions[SetMin(major)].start
         ELSE positions[i + 1].start
    ELSE Len(text)

\* re.sub(f"^{re.escape(header)}", "", content, flags=re.IGNORECASE)
remove_header(content, header) ==
    IF startswith(lower(content), lower(header))
    THEN Slice(content, Len(header), Len(content))
    ELSE content

\* text[start:end].strip() without the header line, stripped again
section_content(text, start, end, header) ==
    strip(remove_header(strip(Slice(text, start, end)), header))

\* GenericPDFExtractor._split_into_sections
split_into_sections(text) ==
    LET positions == section_positions(text)
        index(key) == CHOOSE i \in 1..Len(positions) : positions[i].key = key
    IN [key \in {positions[i].key : i \in 1..Len(positions)} |->
          section_content(text, positions[index(key)].start,
                          section_end(text, positions, index(key)),
                          positions[index(key)].header)]

\* the lines a resume text is made of
MaxTextLines == 4

TextLines ==
    { <<"E","R","V","A","R","I","N","G">>, <<"T","A","L","E","N">>, <<"O","P","L","E","I","D","I","N","G">>, <<" "," ","C","e","r","t","i","f","i","c","a","t","e","n">>, <<"D","u","t","c","h"," ","-"," ","N","a","t","i","v","e">>,
      <<"D","e","v","e","l","o","p","e","r"," ","a","t"," ","A","c","m","e">> }

ResumeTexts == {join(<<"\n">>, lines) : lines \in SeqsUpTo(TextLines, MaxTextLines)}

\* the text of a PDF has been read; nothing is parsed yet
SectionsInit == /\ section_text \in ResumeTexts
                /\ extract_by = "none"
                /\ languages = <<>>
                /\ skills = <<>>
                /\ ParseIdle
                /\ ServiceIdle
                /\ reg_call = RegIdle
                /\ reg_result = Returned("none")
                /\ conv_in = EmptyDict
                /\ conv_pc = "idle"
                /\ europass = EmptyDict
                /\ json_data = EmptyDict
                /\ validation = EmptyDict

\* _parse_text_to_resume: sections = self._split_into_sections(text)
SplitIntoSections ==
    /\ extract_by = "none"
    /\ extract_by' = "generic"
    /\ sections' = split_into_sections(section_text)
    /\ UNCHANGED <<section_text, languages, skills, extracted, raised, regVars, serviceVars, convVars>>

SectionsNext == SplitIntoSections

SpecSections == SectionsInit /\ [][SectionsNext]_vars

\* the headers of a text: for each section name, the first line that is one of
\* its keywords standing alone, in the order of the text
Headers == section_positions(section_text)

\* C11: the experience section runs from its header over any sidebar header
\* (language, certification) to the start of the first following header of
\* another section, or to the end of the text if none follows; every other
\* section ends at the very next header.  With the headers in the order
\* experience, sidebar, other the experience content therefore holds the sidebar
\* header and stops before the other one.
C11_SidebarSkip ==
    extract_by = "generic" =>
        /\ DOMAIN sections = {Headers[i].key : i \in 1..Len(Headers)}
        /\ \A i \in 1..Len(Headers) :
              LET later == {Headers[j].start : j \in (i + 1)..Len(Headers)}
                  later_major == {Headers[j].start : j \in {k \in (i + 1)..Len(Headers) :
                                     Headers[k].key \notin {"language", "certification"}}}
                  stop == IF Headers[i].key = "experience"
                          THEN IF later_major = {} THEN Len(section_text)
                               ELSE SetMin(later_major)
                          ELSE IF later = {} THEN Len(section_text) ELSE SetMin(later)
              IN /\ sections[Headers[i].key] =
                      section_content(section_text, Headers[i].start, stop, Headers[i].header)
                 /\ (/\ Headers[i].key = "experience"
                     /\ i + 2 <= Len(Headers)
                     /\ Headers[i + 1].key \in {"language", "certification"}
                     /\ Headers[i + 2].key \notin {"language", "certification"})
                       => /\ contains(sections.experience, strip(Headers[i + 1].header))
                          /\ ~contains(sections.experience, strip(Headers[i + 2].header))

\* ERVARING, a job line, TALEN, OPLEIDING: the experience section kept the job
\* line and the TALEN header
C11_Witness ==
    /\ extract_by = "generic"
    /\ section_text = <<"E","R","V","A","R","I","N","G","\n","D","e","v","e","l","o","p","e","r"," ","a","t"," ","A","c","m","e","\n","T","A","L","E","N","\n","O","P","L","E","I","D","I","N","G">>
    /\ sections.experience = <<"D","e","v","e","l","o","p","e","r"," ","a","t"," ","A","c","m","e","\n","T","A","L","E","N">>
    /\ sections.language = <<>>
    /\ sections.education = <<>>

\* C24: every section content returned by GenericPDFExtractor._split_into_sections
\* has the matched header stripped from its front, whether the header line is
\* flush-left or indented: the content is the text from the end of the header line
\* to the end of the section, trimmed, and so never begins with the header.
C24_HeaderStripped ==
    extract_by = "generic" =>
        \A i \in 1..Len(Headers) :
            sections[Headers[i].key] =
                strip(Slice(section_text, line_end(section_text, Headers[i].start),
                            section_end(section_text, Headers, i)))

(***************************************************************************)
(* Work experience: GenericPDFExtractor._extract_work_experience and       *)
(* _parse_date, DOCXExtractor._extract_work_experience                     *)
(***************************************************************************)
\* the month names of months_en and months_nl, as re.IGNORECASE compares them
months_en ==
    { <<"j","a","n","u","a","r","y">>, <<"f","e","b","r","u","a","r","y">>, <<"m","a","r","c","h">>, <<"a","p","r","i","l">>, <<"m","a","y">>, <<"j","u","n","e">>, <<"j","u","l","y">>, <<"a","u","g","u","s","t">>,
      <<"s","e","p","t","e","m","b","e","r">>, <<"o","c","t","o","b","e","r">>, <<"n","o","v","e","m","b","e","r">>, <<"d","e","c","e","m","b","e","r">>, <<"j","a","n">>, <<"f","e","b">>, <<"m","a","r">>, <<"a","p","r">>,
      <<"j","u","n">>, <<"j","u","l">>, <<"a","u","g">>, <<"s","e","p">>, <<"s","e","p","t">>, <<"o","c","t">>, <<"n","o","v">>, <<"d","e","c">> }

months_nl ==
    { <<"j","a","n","u","a","r","i">>, <<"f","e","b","r","u","a","r","i">>, <<"m","a","a","r","t">>, <<"a","p","r","i","l">>, <<"m","e","i">>, <<"j","u","n","i">>, <<"j","u","l","i">>, <<"a","u","g","u","s","t","u","s">>,
      <<"s","e","p","t","e","m","b","e","r">>, <<"o","k","t","o","b","e","r">>, <<"n","o","v","e","m","b","e","r">>, <<"d","e","c","e","m","b","e","r">>, <<"j","a","n">>, <<"f","e","b">>, <<"m","r","t">>, <<"a","p","r">>,
      <<"j","u","n">>, <<"j","u","l">>, <<"a","u","g">>, <<"s","e","p">>, <<"o","k","t">>, <<"n","o","v">>, <<"d","e","c">> }

present_keywords == { <<"p","r","e","s","e","n","t">>, <<"c","u","r","r","e","n","t">>, <<"h","e","d","e","n">>, <<"n","u">> }

\* p matches at 0-based offset i of s under re.IGNORECASE, p in lower case
MatchAtIgnoreCase(s, i, p) == /\ i + Len(p) <= Len(s)
                              /\ \A k \in 1..Len(p) : lower_char(s[i + k]) = p[k]

\* (?:months_en|months_nl)\s+\d{4} at offset i: the offset where the match ends, or -1
month_year_at(s, i) ==
    LET hits == {name \in months_en \cup months_nl :
                    MatchAtIgnoreCase(s, i, name) /\ SpacesThenYear(s, i + Len(name), 1)}
        month == CHOOSE name \in hits : TRUE
    IN IF hits = {} THEN -1
       ELSE i + Len(month) + space_run(s, i + Len(month) + 1) + 4

\* (\s*[-\u2013\u2014]\s*) and the second group, which starts at offset start2: the
\* offset where the second group ends, or -1
second_group_end(s, start2) ==
    LET keywords == {kw \in present_keywords : MatchAtIgnoreCase(s, start2, kw)}
        or_keyword(end2) == IF end2 >= 0 THEN end2
                            ELSE IF keywords # {} THEN start2 + Len(CHOOSE kw \in keywords : TRUE)
                            ELSE -1
    IN or_keyword(month_year_at(s, start2))

\* date_range_pattern at offset i: the offsets of its two groups, or None
date_range_at(s, i) ==
    LET groups(end1, dash, start2, end2) ==
            IF end1 < 0 THEN None
            ELSE IF dash >= Len(s) \/ s[dash + 1] \notin {"-", EnDash, EmDash} THEN None
            ELSE IF end2 < 0 THEN None
            ELSE Some([start |-> i, end1 |-> end1, start2 |-> start2, end |-> end2])
        after_dash(end1, dash, start2) == groups(end1, dash, start2, second_group_end(s, start2))
        at_dash(end1, dash) == after_dash(end1, dash, dash + 1 + space_run(s, dash + 2))
        after_month(end1) == at_dash(end1, end1 + space_run(s, end1 + 1))
    IN after_month(month_year_at(s, i))

\* re.split(date_range_pattern, text, flags=re.IGNORECASE): the text before each
\* match, the two groups of the match, and at last the rest
RECURSIVE split_date_ranges(_)
split_date_ranges(text) ==
    LET split_at(range) ==
            <<Slice(text, 0, range.start), Slice(text, range.start, range.end1),
              Slice(text, range.start2, range.end)>>
              \o split_date_ranges(Slice(text, range.end, Len(text)))
        first_of(starts) ==
            IF starts = {} THEN <<text>>
            ELSE split_at(val(date_range_at(text, SetMin(starts))))
    IN first_of({i \in 0..(Len(text) - 1) : date_range_at(text, i) # None})

\* int() of a string of digits
RECURSIVE to_int(_)
to_int(digits) ==
    IF digits = <<>> THEN 0
    ELSE 10 * to_int(SubSeq(digits, 1, Len(digits) - 1))
           + (CHOOSE d \in 0..9 : DigitSeq[d + 1] = digits[Len(digits)])

\* the month names dateutil knows, by month number
dateutil_months ==
    << {<<"j","a","n">>, <<"j","a","n","u","a","r","y">>}, {<<"f","e","b">>, <<"f","e","b","r","u","a","r","y">>}, {<<"m","a","r">>, <<"m","a","r","c","h">>},
       {<<"a","p","r">>, <<"a","p","r","i","l">>}, {<<"m","a","y">>}, {<<"j","u","n">>, <<"j","u","n","e">>}, {<<"j","u","l">>, <<"j","u","l","y">>},
       {<<"a","u","g">>, <<"a","u","g","u","s","t">>}, {<<"s","e","p">>, <<"s","e","p","t">>, <<"s","e","p","t","e","m","b","e","r">>}, {<<"o","c","t">>, <<"o","c","t","o","b","e","r">>},
       {<<"n","o","v">>, <<"n","o","v","e","m","b","e","r">>}, {<<"d","e","c">>, <<"d","e","c","e","m","b","e","r">>} >>

\* parser.parse(date_str, default=datetime(2000, 1, 1)).date() on the strings that
\* reach it here: a month name of dateutil and a year give the first day of that
\* month; a string with a token dateutil does not know, or the year 0, raises (None)
dateutil_parse(date_str) ==
    LET low == lower(date_str)
        letters == SetMin({i \in 0..Len(low) : i = Len(low) \/ low[i + 1] \notin LowerSet})
        name == Slice(low, 0, letters)
        whole == /\ SpacesThenYear(low, letters, 1)
                 /\ letters + space_run(low, letters + 1) + 4 = Len(low)
        year == to_int(Slice(low, Len(low) - 4, Len(low)))
        months == {k \in 1..12 : name \in dateutil_months[k]}
    IN IF whole /\ months # {} /\ year >= 1
       THEN Some(Date(year, CHOOSE k \in months : TRUE, 1))
       ELSE None

\* month_names of _parse_date, in the order of the dict
parse_date_month_names ==
    << <<<<"j","a","n">>, 1>>, <<<<"j","a","n","u","a","r","i">>, 1>>, <<<<"j","a","n","u","a","r","y">>, 1>>, <<<<"f","e","b">>, 2>>,
       <<<<"f","e","b","r","u","a","r","i">>, 2>>, <<<<"f","e","b","r","u","a","r","y">>, 2>>, <<<<"m","r","t">>, 3>>, <<<<"m","a","a","r","t">>, 3>>,
       <<<<"m","a","r">>, 3>>, <<<<"m","a","r","c","h">>, 3>>, <<<<"a","p","r">>, 4>>, <<<<"a","p","r","i","l">>, 4>>, <<<<"m","e","i">>, 5>>,
       <<<<"m","a","y">>, 5>>, <<<<"j","u","n">>, 6>>, <<<<"j","u","n","i">>, 6>>, <<<<"j","u","n","e">>, 6>>, <<<<"j","u","l">>, 7>>,
       <<<<"j","u","l","i">>, 7>>, <<<<"j","u","l","y">>, 7>>, <<<<"a","u","g">>, 8>>, <<<<"a","u","g","u","s","t","u","s">>, 8>>,
       <<<<"a","u","g","u","s","t">>, 8>>, <<<<"s","e","p">>, 9>>, <<<<"s","e","p","t">>, 9>>, <<<<"s","e","p","t","e","m","b","e","r">>, 9>>,
       <<<<"o","k","t">>, 10>>, <<<<"o","c","t">>, 10>>, <<<<"o","k","t","o","b","e","r">>, 10>>, <<<<"o","c","t","o","b","e","r">>, 10>>,
       <<<<"n","o","v">>, 11>>, <<<<"n","o","v","e","m","b","e","r">>, 11>>, <<<<"d","e","c">>, 12>>, <<<<"d","e","c","e","m","b","e","r">>, 12>> >>

\* re.search(r"\b(19|20)\d{2}\b", s): the year as int() reads it, or -1
find_year(s) ==
    LET years == {i \in 0..(Len(s) - 4) :
                    /\ MatchAt(s, i, <<"1","9">>) \/ MatchAt(s, i, <<"2","0">>)
                    /\ s[i + 3] \in Digits /\ s[i + 4] \in Digits
                    /\ Boundary(s, i) /\ Boundary(s, i + 4)}
    IN IF years = {} THEN -1 ELSE to_int(Slice(s, SetMin(years), SetMin(years) + 4))

\* the except branch of _parse_date: the year, then the first month name of the
\* dict that occurs in date_str.lower()
parse_date_fallback(date_str) ==
    LET year == find_year(date_str)
        found == {k \in 1..Len(parse_date_month_names) :
                    contains(lower(date_str), parse_date_month_names[k][1])}
    IN IF year < 0 THEN None
       ELSE IF found # {} THEN Some(Date(year, parse_date_month_names[SetMin(found)][2], 1))
       ELSE Some(Date(year, 1, 1))

\* _parse_date
parse_date(date_str) ==
    IF dateutil_parse(date_str) # None THEN dateutil_parse(date_str)
    ELSE parse_date_fallback(date_str)

\* [line.strip() for line in text.split("\n") if line.strip()]
nonempty_lines(text) ==
    LET lines == split_chars(text, {"\n"})
    IN SelectSeq([i \in 1..Len(lines) |-> strip(lines[i])], LAMBDA line : line # <<>>)

\* re.search(r"(bij|voor|at)\s+(.+)", potential_company, re.IGNORECASE): group(2), or None
bij_match(potential_company) ==
    LET after(i) == CHOOSE n \in 0..Len(potential_company) :
                       \E word \in { <<"b","i","j">>, <<"v","o","o","r">>, <<"a","t">> } :
                           /\ MatchAtIgnoreCase(potential_company, i, word)
                           /\ n = i + Len(word) + space_run(potential_company, i + Len(word) + 1)
        hits == {i \in 0..Len(potential_company) :
                    \E word \in { <<"b","i","j">>, <<"v","o","o","r">>, <<"a","t">> } :
                        /\ MatchAtIgnoreCase(potential_company, i, word)
                        /\ space_run(potential_company, i + Len(word) + 1) >= 1
                        /\ i + Len(word) + space_run(potential_company, i + Len(word) + 1)
                             < Len(potential_company)}
    IN IF hits = {} THEN None
       ELSE Some(Slice(potential_company, after(SetMin(hits)), Len(potential_company)))

contractor_keywords ==
    { <<"F","r","e","e","l","a","n","c","e">>, <<"C","o","n","t","r","a","c","t","o","r">>, <<"C","o","n","s","u","l","t","a","n","t">>, <<"Z","e","l","f","s","t","a","n","d","i","g">>, <<"Z","z","p">>, <<"Z","Z","P">> }

\* position and employer from the last lines before the date range; the description
\* is still None where the contractor prefix would be put in front of it
position_and_employer(exp, before_text) ==
    LET lines_before == nonempty_lines(before_text)
        n == Len(lines_before)
        potential_position == lines_before[n - 1]
        potential_company == lines_before[n]
        employer == IF bij_match(potential_company) # None
                    THEN strip(val(bij_match(potential_company)))
                    ELSE potential_company
        is_contractor == \E kw \in contractor_keywords :
                            \/ contains(lower(potential_position), lower(kw))
                            \/ employer # <<>> /\ contains(lower(employer), lower(kw))
    IN IF n = 0 THEN exp
       ELSE IF n = 1 THEN [exp EXCEPT !.position = Some(lines_before[n])]
       ELSE IF is_contractor /\ truthy(exp.description)
       THEN [exp EXCEPT !.position = Some(potential_position), !.employer = Some(employer),
                        !.description = Some(<<"C","o","n","t","r","a","c","t","o","r","/","F","r","e","e","l","a","n","c","e","\n">> \o val(exp.description))]
       ELSE [exp EXCEPT !.position = Some(potential_position), !.employer = Some(employer)]

\* str.isupper(): a cased character, and no cased character in lower case
isupper(s) == /\ \E i \in 1..Len(s) : s[i] \in UpperSet
              /\ \A i \in 1..Len(s) : s[i] \notin LowerSet

\* the lines after the date range, up to the first line in capitals that is longer
\* than five characters and no bullet; at most the first ten of the first twenty
description_lines(content_after) ==
    LET content_lines == SubSeq(nonempty_lines(content_after), 1,
                                Min(20, Len(nonempty_lines(content_after))))
        stops == {i \in 1..Len(content_lines) :
                    /\ isupper(content_lines[i])
                    /\ Len(content_lines[i]) > 5
                    /\ content_lines[i][1] # Bullet}
        desc_lines == IF stops = {} THEN content_lines
                      ELSE SubSeq(content_lines, 1, SetMin(stops) - 1)
    IN SubSeq(desc_lines, 1, Min(10, Len(desc_lines)))

\* current and end_date: any(keyword in end_date_str.lower() for keyword in
\* ["heden", "present", "current", "nu"]), a test of substrings
end_of_range(exp, end_date_str) ==
    IF \E keyword \in present_keywords : contains(lower(end_date_str), keyword)
    THEN [exp EXCEPT !.current = TRUE, !.end_date = None]
    ELSE [exp EXCEPT !.end_date = parse_date(end_date_str)]

\* one entry of the while loop
work_entry(before_text, start_date_str, end_date_str, content_after) ==
    LET dated == end_of_range([BareWork EXCEPT !.start_date = parse_date(start_date_str)],
                              end_date_str)
        placed == position_and_employer(dated, before_text)
        desc_lines == description_lines(content_after)
    IN IF desc_lines = <<>> THEN placed
       ELSE [placed EXCEPT !.description = Some(join(<<"\n">>, desc_lines))]

\* the while loop over entries, i the 0-based index
RECURSIVE work_loop(_, _)
work_loop(entries, i) ==
    IF i >= Len(entries) THEN <<>>
    ELSE IF i + 3 > Len(entries) THEN work_loop(entries, i + 1)
    ELSE LET before_text == strip(entries[i + 1])
             start_date_str == strip(entries[i + 2])
             end_date_str == strip(entries[i + 3])
             content_after == IF i + 3 < Len(entries) THEN strip(entries[i + 4]) ELSE <<>>
         IN IF start_date_str = <<>> \/ end_date_str = <<>> \/ before_text = <<>>
            THEN work_loop(entries, i + 1)
            ELSE IF Len(before_text) < 5 THEN work_loop(entries, i + 1)
            ELSE <<work_entry(before_text, start_date_str, end_date_str, content_after)>>
                   \o work_loop(entries, i + 3)

DescriptionMax == 1000

\* the fallback without the cap on the description
work_fallback_uncapped(text) ==
    IF strip(text) # <<>> THEN <<[BareWork EXCEPT !.description = Some(strip(text))]>>
    ELSE <<>>

\* WorkExperience(description=text.strip()[:1000]) for a text that is not blank
work_fallback(text) ==
    IF strip(text) # <<>>
    THEN <<[BareWork EXCEPT !.description = Some(Slice(strip(text), 0, DescriptionMax))]>>
    ELSE <<>>

GenericPDFExtractor_extract_work_experience(text) ==
    LET or_fallback(experiences) ==
            IF experiences = <<>> THEN work_fallback(text) ELSE experiences
    IN or_fallback(work_loop(split_date_ranges(text), 0))

DOCXExtractor_extract_work_experience(text) == work_fallback(text)

MaxWorkLines == 3

WorkLines ==
    { <<"S","e","n","i","o","r"," ","D","e","v","e","l","o","p","e","r">>, <<"b","i","j"," ","A","c","m","e"," ","B","V">>, <<"D","e","v">>, <<"M","a","r"," ","2","0","1","9"," ","-"," ","J","a","n","u","a","r","y"," ","2","0","2","1">>,
      <<"m","e","i"," ","2","0","1","8"," ","U+2013"," ","h","e","d","e","n">>, <<"J","a","n"," ","2","0","2","0","-","D","e","c"," ","2","0","2","1">>, <<"P","R","O","J","E","C","T"," ","L","E","A","D">> }

Capitalized(name) == <<UpperMap[name[1]]>> \o Tail(name)

\* the ways a date range can end: every month name of the pattern with a year, and
\* every keyword for the present, in lower case, capitalized and in capitals
RangeEnds ==
    LET names == months_en \cup months_nl
    IN {name \o <<" ","2","0","2","1">> : name \in names}
         \cup {Capitalized(name) \o <<" ","2","0","2","1">> : name \in names}
         \cup present_keywords
         \cup {Capitalized(kw) : kw \in present_keywords}
         \cup {upper(kw) : kw \in present_keywords}

\* one job whose date range ends in range_end
JobText(range_end) ==
    <<"S","e","n","i","o","r"," ","D","e","v","e","l","o","p","e","r","\n","b","i","j"," ","A","c","m","e"," ","B","V","\n","M","a","r"," ","2","0","1","9"," ","-"," ">> \o range_end \o <<"\n","B","u","i","l","t"," ","A","P","I","s">>

RECURSIVE repeat(_, _)
repeat(s, n) == IF n = 0 THEN <<>> ELSE s \o repeat(s, n - 1)

LongRepeats == 60

\* a text without dates, longer than the cap on a description
LongText == <<" "," ","\n">> \o repeat(<<"M","a","n","a","g","e","d"," ","p","r","o","j","e","c","t","s","."," ">>, LongRepeats)

\* jobs of contractors, and jobs whose employer line holds bij, voor or at, as a
\* word or inside a word
RoleTexts ==
    { <<"F","r","e","e","l","a","n","c","e"," ","W","e","b"," ","D","e","v","e","l","o","p","e","r","\n","S","e","l","f","-","e","m","p","l","o","y","e","d","\n","J","a","n"," ","2","0","2","2"," ","-"," ","P","r","e","s","e","n","t","\n","B","u","i","l","t"," ","c","u","s","t","o","m"," ","w","e","b","s","i","t","e","s">>,
      <<"D","e","v","e","l","o","p","e","r","\n","Z","Z","P"," ","D","i","e","n","s","t","e","n","\n","J","a","n"," ","2","0","2","0"," ","-"," ","D","e","c"," ","2","0","2","1","\n","S","h","o","r","t","-","t","e","r","m"," ","p","r","o","j","e","c","t","s">>,
      <<"S","o","f","t","w","a","r","e"," ","D","e","v","e","l","o","p","e","r","\n","b","i","j"," ","T","e","c","h"," ","C","o","m","p","a","n","y","\n","J","a","n"," ","2","0","2","0"," ","-"," ","D","e","c"," ","2","0","2","2","\n","B","u","i","l","t"," ","w","e","b"," ","a","p","p","l","i","c","a","t","i","o","n","s">>,
      <<"C","o","n","s","u","l","t","a","n","t","\n","v","o","o","r"," ","B","u","s","i","n","e","s","s"," ","S","o","l","u","t","i","o","n","s","\n","J","a","n"," ","2","0","1","8"," ","-"," ","D","e","c"," ","2","0","1","9">>,
      <<"E","n","g","i","n","e","e","r","\n","H","a","b","i","t","a","t"," ","S","o","l","u","t","i","o","n","s","\n","J","a","n"," ","2","0","1","8"," ","-"," ","D","e","c"," ","2","0","1","9","\n","P","l","a","n","n","i","n","g">>,
      <<"A","n","a","l","y","s","t","\n","B","i","j","e","n","k","o","r","f","\n","J","a","n"," ","2","0","1","8"," ","-"," ","D","e","c"," ","2","0","1","9">> }

WorkTexts ==
    {join(<<"\n">>, lines) : lines \in SeqsUpTo(WorkLines, MaxWorkLines)}
      \cup {JobText(range_end) : range_end \in RangeEnds}
      \cup RoleTexts
      \cup {LongText, <<" ","\n","\t">>}

\* the text of the experience section is at hand; nothing is extracted yet
WorkInit == /\ section_text \in WorkTexts
            /\ extract_by = "none"
            /\ languages = <<>>
            /\ skills = <<>>
            /\ ParseIdle
            /\ ServiceIdle
            /\ reg_call = RegIdle
            /\ reg_result = Returned("none")
            /\ conv_in = EmptyDict
            /\ conv_pc = "idle"
            /\ europass = EmptyDict
            /\ json_data = EmptyDict
            /\ validation = EmptyDict

GenericExtractWork ==
    /\ extract_by = "none"
    /\ extract_by' = "generic"
    /\ extracted' = GenericPDFExtractor_extract_work_experience(section_text)
    /\ UNCHANGED <<section_text, languages, skills, sections, raised, regVars, serviceVars, convVars>>

DOCXExtractWork ==
    /\ extract_by = "none"
    /\ extract_by' = "docx"
    /\ extracted' = DOCXExtractor_extract_work_experience(section_text)
    /\ UNCHANGED <<section_text, languages, skills, sections, raised, regVars, serviceVars, convVars>>

WorkNext == GenericExtractWork \/ DOCXExtractWork

SpecWork == WorkInit /\ [][WorkNext]_vars

NoDateRange(text) == \A i \in 0..Len(text) : date_range_at(text, i) = None

\* C12: for a work-experience text that is not blank and holds no month-year date
\* range, GenericPDFExtractor._extract_work_experience returns exactly one
\* WorkExperience: its description is the text, trimmed and cut to 1000
\* characters, and every other field has its default.
C12_DateRangeFallback ==
    (extract_by = "generic" /\ strip(section_text) # <<>> /\ NoDateRange(section_text)) =>
        /\ Len(extracted) = 1
        /\ extracted[1].description = Some(SubSeq(strip(section_text), 1,
                                                  Min(1000, Len(strip(section_text)))))
        /\ [extracted[1] EXCEPT !.description = None] = BareWork

\* the fallback has cut a text of more than 1000 characters
C12_Witness ==
    /\ extract_by = "generic"
    /\ section_text = LongText
    /\ Len(strip(section_text)) > 1000
    /\ Len(extracted) = 1
    /\ Len(val(extracted[1].description)) = 1000

\* the month number of a month name, English or Dutch
MonthOf(name) ==
    parse_date_month_names[CHOOSE k \in 1..Len(parse_date_month_names) :
                              parse_date_month_names[k][1] = name][2]

\* the month name and the year of a string "<month> <year>"
MonthYear(s) ==
    LET blank == SetMin({i \in 1..Len(s) : s[i] \in Whitespace})
    IN Date(to_int(SubSeq(s, Len(s) - 3, Len(s))), MonthOf(lower(SubSeq(s, 1, blank - 1))), 1)

\* C20: an entry of GenericPDFExtractor._extract_work_experience has current = True
\* and end_date = None exactly when its date range ends in Present, Heden, Nu or
\* Current, in any case; when the range ends in a month and a year, whichever
\* English or Dutch month name the pattern accepts, current = False and end_date
\* is that month of that year.
C20_EndOfRange ==
    \A range_end \in RangeEnds :
        (extract_by = "generic" /\ section_text = JobText(range_end)) =>
            /\ Len(extracted) = 1
            /\ IF \E kw \in present_keywords : lower(range_end) = kw
               THEN extracted[1].current /\ extracted[1].end_date = None
               ELSE /\ ~extracted[1].current
                    /\ extracted[1].end_date = Some(MonthYear(range_end))

ContractorMarker == <<"C","o","n","t","r","a","c","t","o","r","/","F","r","e","e","l","a","n","c","e","\n">>

\* a contractor keyword stands in the position or in the employer of the entry
IsContractor(exp) ==
    \E kw \in contractor_keywords :
        \/ truthy(exp.position) /\ contains(lower(val(exp.position)), lower(kw))
        \/ truthy(exp.employer) /\ contains(lower(val(exp.employer)), lower(kw))

\* C21: when the position or the employer of a work entry holds a contractor
\* keyword (Freelance, Contractor, Consultant, Zelfstandig, ZZP, in any case) and
\* description text follows its date range, the description of the WorkExperience
\* that GenericPDFExtractor._extract_work_experience returns starts with the
\* contractor/freelance marker.
C21_ContractorMarked ==
    extract_by = "generic" =>
        \A k \in 1..Len(extracted) :
            (IsContractor(extracted[k]) /\ truthy(extracted[k].description))
                => startswith(val(extracted[k].description), ContractorMarker)

\* the text after the first whole word bij, voor or at of the line that is
\* followed by blanks and more text, trimmed; None when there is no such word
AfterPreposition(line) ==
    LET words == { <<"b","i","j">>, <<"v","o","o","r">>, <<"a","t">> }
        hits == {i \in 0..Len(line) :
                    \E word \in words :
                        /\ MatchAtIgnoreCase(line, i, word)
                        /\ Boundary(line, i)
                        /\ i + Len(word) < Len(line)
                        /\ line[i + Len(word) + 1] \in Whitespace
                        /\ strip(Slice(line, i + Len(word), Len(line))) # <<>>}
        start == SetMin(hits)
        word == CHOOSE w \in words : MatchAtIgnoreCase(line, start, w)
    IN IF hits = {} THEN None
       ELSE Some(strip(Slice(line, start + Len(word), Len(line))))

\* C22: for a structured work entry with at least two non-empty lines before its
\* date range, position is the second-to-last and employer the last of these
\* lines, unchanged; the employer is X instead only when the last line holds the
\* separate word bij, voor or at followed by X.
C22_PositionAndEmployer ==
    LET entries == split_date_ranges(section_text)
        lines_before == nonempty_lines(entries[1])
        n == Len(lines_before)
    IN (extract_by = "generic" /\ Len(entries) = 4 /\ n >= 2) =>
           /\ Len(extracted) = 1
           /\ extracted[1].position = Some(lines_before[n - 1])
           /\ extracted[1].employer =
                  IF AfterPreposition(lines_before[n]) # None
                  THEN AfterPreposition(lines_before[n])
                  ELSE Some(lines_before[n])

\* the stripped start and end captures of the date ranges of the text
DateCaptures(text) ==
    LET entries == split_date_ranges(text)
    IN {strip(entries[i]) : i \in {j \in 1..Len(entries) : (j - 1) % 3 # 0}}

\* the number of date ranges re.split found in the text
DateRanges(text) == (Len(split_date_ranges(text)) - 1) \div 3

\* C28: the scan of GenericPDFExtractor._extract_work_experience stays aligned
\* with the [text, start, end, text, ...] layout of the re.split result: no date
\* capture is used as the position of an entry, and there are no more structured
\* entries than matched date ranges.
C28_ScanAligned ==
    (extract_by = "generic" /\ DateRanges(section_text) >= 1) =>
        /\ \A k \in 1..Len(extracted) :
               truthy(extracted[k].position)
                   => val(extracted[k].position) \notin DateCaptures(section_text)
        /\ Cardinality({k \in 1..Len(extracted) : extracted[k].start_date # None
                                                     \/ truthy(extracted[k].position)})
              <= DateRanges(section_text)

(***************************************************************************)
(* The mapper on countries, periods and education levels                   *)
(***************************************************************************)
\* the Country dict with the code of the curated table
ExpectedCountry(name) == [Code |-> get_country_code(name), Label |-> name]

\* C14: every Country object the mapper emits, in the personal address, in an
\* employer address and in an education organisation address, has as Code the
\* ISO alpha-2 code of the table when the lower-cased, trimmed country name is in
\* the table, else the first two characters of the name in upper case, and as
\* Label the original name.
C14_CountryCodes ==
    conv_pc \in {"mapped", "done"} =>
        LET resume == conv_in.resume
            info == europass.LearnerInfo
        IN /\ truthy(resume.personal_info.country) =>
                info.Identification.ContactInfo.Address.Contact.Country
                  = ExpectedCountry(val(resume.personal_info.country))
           /\ \A i \in 1..Len(resume.work_experience) :
                truthy(resume.work_experience[i].country) =>
                    info.WorkExperience[i].Employer.ContactInfo.Address.Contact.Country
                      = ExpectedCountry(val(resume.work_experience[i].country))
           /\ \A i \in 1..Len(resume.education) :
                truthy(resume.education[i].country) =>
                    info.Education[i].Organisation.ContactInfo.Address.Contact.Country
                      = ExpectedCountry(val(resume.education[i].country))

\* the Period of a mapped entry, {} when the entry has none
PeriodOf(mapped) == IF "Period" \in DOMAIN mapped THEN mapped.Period ELSE EmptyDict

\* C15: the mapped Period of a work experience contains Current = true exactly when
\* the entry has current = True and no end_date, it contains To exactly when the
\* entry has an end_date, and it never contains both To and Current.
C15_CurrentInsteadOfTo ==
    conv_pc \in {"mapped", "done"} =>
        \A i \in 1..Len(conv_in.resume.work_experience) :
            LET exp == conv_in.resume.work_experience[i]
                period == PeriodOf(europass.LearnerInfo.WorkExperience[i])
            IN /\ "Current" \in DOMAIN period <=> (exp.current /\ ~is_set(exp.end_date))
               /\ "Current" \in DOMAIN period => period.Current = TRUE
               /\ "To" \in DOMAIN period <=> is_set(exp.end_date)
               /\ ~("To" \in DOMAIN period /\ "Current" \in DOMAIN period)

\* both kinds were mapped: an entry marked current that has an end date and so
\* gets To, or an entry marked current without one that gets Current
C15_Witness ==
    /\ conv_pc = "mapped"
    /\ \E i \in 1..Len(conv_in.resume.work_experience) :
          LET exp == conv_in.resume.work_experience[i]
              period == PeriodOf(europass.LearnerInfo.WorkExperience[i])
          IN /\ exp.current
             /\ is_set(exp.end_date)
             /\ "To" \in DOMAIN period
             /\ "Current" \notin DOMAIN period

\* titles of education entries, one or more for each rule of the level inference
Titles ==
    { <<"P","h","D"," ","i","n"," ","P","h","y","s","i","c","s">>, <<"D","o","c","t","o","r","a","l"," ","c","a","n","d","i","d","a","t","e">>, <<"M","S","c"," ","I","n","f","o","r","m","a","t","i","c","a">>, <<"I","n","f","o","r","m","a","t","i","c","a">>,
      <<"B","a","c","h","e","l","o","r"," ","o","f"," ","S","c","i","e","n","c","e"," ","a","n","d"," ","M","a","s","t","e","r"," ","o","f"," ","A","r","t","s">>, <<"M",".","A","."," ","H","i","s","t","o","r","y">>, <<"P","r","e","m","a","s","t","e","r">>,
      <<"B","S","c"," ","I","n","f","o","r","m","a","t","i","c","a">>, <<"B",".","I","C","T">>, <<"H","B","O"," ","B","a","c","h","e","l","o","r","s">>, <<"H","B","O"," ","I","n","f","o","r","m","a","t","i","c","a">>,
      <<"A","s","s","o","c","i","a","t","e"," ","d","e","g","r","e","e">>, <<"V","W","O">>, <<"M","B","O"," ","T","e","c","h","n","i","e","k">>, <<"B","a","s","i","s","s","c","h","o","o","l">>, <<"M","B","A">> }

LevelCodes == { None, Some(<<"5">>), Some(<<"9">>), Some(<<>>) }

LevelInputs ==
    { [resume |-> [personal_info |-> NoContact @@ [first_name |-> Some(<<"J","a","n">>),
                                                   last_name |-> Some(<<"J","a","n","s","e","n">>),
                                                   photo |-> None],
                   work_experience |-> <<>>,
                   education |-> <<[BareEducation EXCEPT !.title = Some(title),
                                                         !.level = level]>>] @@ NoExtras,
       include_photo |-> FALSE,
       now |-> now] : title \in Titles, level \in LevelCodes, now \in Clock }

\* an extractor has produced a Resume with one education entry
LevelInit == /\ conv_in \in LevelInputs
             /\ conv_pc = "start"
             /\ europass = EmptyDict
             /\ json_data = EmptyDict
             /\ validation = EmptyDict
             /\ reg_call = RegIdle
             /\ reg_result = Returned("none")
             /\ ExtractIdle
             /\ ParseIdle
             /\ ServiceIdle

SpecLevels == LevelInit /\ [][ConvNext]_vars

Doctoral(t) ==
    \E word \in {<<"p","h","d">>, <<"p","h",".","d">>, <<"d","o","c","t","o","r","a","t","e">>, <<"d","o","c","t","o","r","a","l">>, <<"d","o","c","t","o","r">>} : contains(t, word)
Master(t) == (\E p \in master_patterns : ReWord(t, p)) \/ contains(t, <<"p","r","e","m","a","s","t","e","r">>)
Bachelor(t) == \E p \in bachelor_patterns : ReWord(t, p)
ShortCycle(t) == \E word \in {<<"h","b","o">>, <<"a","s","s","o","c","i","a","t","e">>, <<"h","o","g","e","s","c","h","o","o","l">>} : contains(t, word)
UpperSecondary(t) ==
    \E word \in {<<"h","i","g","h"," ","s","c","h","o","o","l">>, <<"s","e","c","o","n","d","a","r","y">>, <<"d","i","p","l","o","m","a">>, <<"h","a","v","o">>, <<"v","w","o">>, <<"g","y","m","n","a","s","i","u","m">>,
                 <<"m","b","o">>, <<"v","o","c","a","t","i","o","n","a","l">>, <<"t","e","c","h","n","i","c","a","l"," ","c","o","l","l","e","g","e">>} : contains(t, word)

\* the code of the first rule that matches the title, "" when none does
FirstRule(title) ==
    LET t == lower(title)
    IN IF Doctoral(t) THEN <<"8">>
       ELSE IF Master(t) THEN <<"7">>
       ELSE IF Bachelor(t) THEN <<"6">>
       ELSE IF ShortCycle(t) THEN (IF contains(t, <<"b","a","c","h","e","l","o","r">>) THEN <<"6">> ELSE <<"5">>)
       ELSE IF UpperSecondary(t) THEN <<"3">>
       ELSE <<>>

\* C17: an Education record that carries a level is emitted with that Level code
\* unchanged; otherwise the code is that of the first matching rule in the order
\* doctoral (8), master (7), bachelor (6), short-cycle HBO/associate (5, but 6 when
\* the title contains "bachelor"), upper secondary with MBO/vocational (3), and
\* there is no Level when no rule matches. A title matching a master and a
\* bachelor rule gets 7; "ma" inside a longer word such as "Informatica" does not.
C17_IscedLevel ==
    conv_pc \in {"mapped", "done"} =>
        \A i \in 1..Len(conv_in.resume.education) :
            LET edu == conv_in.resume.education[i]
                mapped == europass.LearnerInfo.Education[i]
                title == IF truthy(edu.title) THEN val(edu.title) ELSE <<>>
            IN /\ truthy(edu.level) =>
                    "Level" \in DOMAIN mapped /\ mapped.Level.Code = val(edu.level)
               /\ (~truthy(edu.level) /\ FirstRule(title) # <<>>) =>
                    "Level" \in DOMAIN mapped /\ mapped.Level.Code = FirstRule(title)
               /\ (~truthy(edu.level) /\ FirstRule(title) = <<>>) =>
                    "Level" \notin DOMAIN mapped
               /\ (~truthy(edu.level)
                     /\ title = <<"B","a","c","h","e","l","o","r"," ","o","f"," ","S","c","i","e","n","c","e"," ","a","n","d"," ","M","a","s","t","e","r"," ","o","f"," ","A","r","t","s">>) =>
                    mapped.Level.Code = <<"7">>
               /\ (~truthy(edu.level) /\ title = <<"I","n","f","o","r","m","a","t","i","c","a">>) =>
                    "Level" \notin DOMAIN mapped

\* a title with a bachelor and a master keyword was mapped without a level of its own
C17_Witness ==
    /\ conv_pc = "mapped"
    /\ conv_in.resume.education[1].title = Some(<<"B","a","c","h","e","l","o","r"," ","o","f"," ","S","c","i","e","n","c","e"," ","a","n","d"," ","M","a","s","t","e","r"," ","o","f"," ","A","r","t","s">>)
    /\ conv_in.resume.education[1].level = None
    /\ europass.LearnerInfo.Education[1].Level.Code = <<"7">>

(***************************************************************************)
(* Education: GenericPDFExtractor._extract_education and                   *)
(* DOCXExtractor._extract_education                                        *)
(***************************************************************************)
\* the length of the run of whitespace at 0-based offset p
ws(s, p) == space_run(s, p + 1)

\* the length of the run of characters of chars at 0-based offset p
RECURSIVE run(_, _, _)
run(s, p, chars) == IF p < Len(s) /\ s[p + 1] \in chars THEN 1 + run(s, p + 1, chars) ELSE 0

\* the word of words that stands at offset p under re.IGNORECASE, as a set
words_at(s, p, words) == {word \in words : MatchAtIgnoreCase(s, p, word)}

\* re.search(r"(\d{4})\s*[-–—]\s*(\d{4})", line): the two years as int() reads them
\* and the offset where the match ends, or None
year_range(line) ==
    LET hits == {i \in 0..(Len(line) - 4) :
                    /\ \A k \in 1..4 : line[i + k] \in Digits
                    /\ i + 4 + ws(line, i + 4) < Len(line)
                    /\ line[i + 5 + ws(line, i + 4)] \in {"-", EnDash, EmDash}
                    /\ SpacesThenYear(line, i + 5 + ws(line, i + 4), 0)}
        years(i, j) == Some([start_year |-> to_int(Slice(line, i, i + 4)),
                             end_year |-> to_int(Slice(line, j, j + 4)),
                             end |-> j + 4])
        range_at(i) == years(i, i + 5 + ws(line, i + 4) + ws(line, i + 5 + ws(line, i + 4)))
    IN IF hits = {} THEN None ELSE range_at(SetMin(hits))

\* (?:\s+in)?\s+(\d{4}) at offset p: the year, or -1
graduated_tail(line, p) ==
    LET n == ws(line, p)
        year_at(q) == to_int(Slice(line, q + ws(line, q), q + ws(line, q) + 4))
    IN IF n >= 1 /\ MatchAtIgnoreCase(line, p + n, <<"i","n">>) /\ SpacesThenYear(line, p + n + 2, 1)
       THEN year_at(p + n + 2)
       ELSE IF SpacesThenYear(line, p, 1) THEN year_at(p)
       ELSE -1

\* re.search(r"(?:afgestudeerd|graduated)(?:\s+in)?\s+(\d{4})", line, re.IGNORECASE):
\* the year as int() reads it, or -1
graduated_year(line) ==
    LET tails == {p \in 0..Len(line) :
                    /\ \E word \in { <<"a","f","g","e","s","t","u","d","e","e","r","d">>, <<"g","r","a","d","u","a","t","e","d">> } :
                          p >= Len(word) /\ MatchAtIgnoreCase(line, p - Len(word), word)
                    /\ graduated_tail(line, p) >= 0}
    IN IF tails = {} THEN -1 ELSE graduated_tail(line, SetMin(tails))

\* the first match of a two-part pattern: a word of words and, right after it, a
\* tail whose end offset tail_end gives (-1 without a match); the text matched
first_match(line, words, tail_end(_)) ==
    LET hits == {i \in 0..Len(line) :
                    \E word \in words_at(line, i, words) : tail_end(i + Len(word)) >= 0}
        matched(i, word) == Some(Slice(line, i, tail_end(i + Len(word))))
        match_at(i) ==
            matched(i, CHOOSE w \in words_at(line, i, words) : tail_end(i + Len(w)) >= 0)
    IN IF hits = {} THEN None ELSE match_at(SetMin(hits))

\* grade_patterns, tried in order: group(0) of the first that matches, or None
grade_match(line) ==
    LET laude(p) == p
        honors(p) ==
            LET q == p + ws(line, p)
            IN IF ws(line, p) = 0 THEN -1
               ELSE IF MatchAtIgnoreCase(line, q, <<"h","o","n","o","r","s">>) THEN q + 6
               ELSE IF MatchAtIgnoreCase(line, q, <<"h","o","n","o","r">>) THEN q + 5
               ELSE IF MatchAtIgnoreCase(line, q, <<"o","n","d","e","r","s","c","h","e","i","d","i","n","g">>) THEN q + 14
               ELSE -1
        number(p) ==
            LET q == p + run(line, p, Whitespace \cup {":"})
            IN IF run(line, q, Digits \cup {"."}) = 0 THEN -1
               ELSE q + run(line, q, Digits \cup {"."})
        first_of(found) ==
            LET matching == {k \in 1..4 : found[k] # None}
            IN IF matching = {} THEN None ELSE found[SetMin(matching)]
    IN first_of(<< first_match(line, { <<"c","u","m"," ","l","a","u","d","e">>, <<"s","u","m","m","a"," ","c","u","m"," ","l","a","u","d","e">>, <<"m","a","g","n","a"," ","c","u","m"," ","l","a","u","d","e">> },
                                laude),
                    first_match(line, { <<"w","i","t","h">>, <<"m","e","t">> }, honors),
                    first_match(line, { <<"g","p","a">> }, number),
                    first_match(line, { <<"g","r","a","d","e">>, <<"c","i","j","f","e","r">> }, number) >>)

organization_keywords ==
    { <<"u","n","i","v","e","r","s","i","t","e","i","t">>, <<"u","n","i","v","e","r","s","i","t","y">>, <<"h","o","g","e","s","c","h","o","o","l">>, <<"c","o","l","l","e","g","e">>, <<"s","c","h","o","o","l">>, <<"i","n","s","t","i","t","u","u","t">>,
      <<"i","n","s","t","i","t","u","t","e">> }

\* (?:in\s+)? at offset u: the offset after it
optional_in(line, u) ==
    IF MatchAtIgnoreCase(line, u, <<"i","n">>) /\ ws(line, u + 2) >= 1
    THEN u + 2 + ws(line, u + 2)
    ELSE u

\* \s+(?:of\s+)?(?:Science|Arts|Engineering|Business|Laws)?\s+(?:in\s+)? at offset
\* p, the optional parts taken when the match can go on after them: the offset
\* where group 2 starts, or -1
degree_field_start(line, p) ==
    LET first == p + ws(line, p)
        of_end == IF MatchAtIgnoreCase(line, first, <<"o","f">>) /\ ws(line, first + 2) >= 1
                  THEN first + 2 + ws(line, first + 2)
                  ELSE -1
        faculty(r) == words_at(line, r, { <<"s","c","i","e","n","c","e">>, <<"a","r","t","s">>, <<"e","n","g","i","n","e","e","r","i","n","g">>, <<"b","u","s","i","n","e","s","s">>,
                                           <<"l","a","w","s">> })
        faculty_end(r) == r + Len(CHOOSE word \in faculty(r) : TRUE)
        after_faculty(r) ==
            IF r >= 0 /\ faculty(r) # {} /\ ws(line, faculty_end(r)) >= 1
            THEN faculty_end(r) + ws(line, faculty_end(r))
            ELSE -1
    IN IF ws(line, p) = 0 THEN -1
       ELSE IF after_faculty(of_end) >= 0 THEN optional_in(line, after_faculty(of_end))
       ELSE IF of_end >= 0 /\ ws(line, first + 2) >= 2 THEN optional_in(line, of_end)
       ELSE IF after_faculty(first) >= 0 THEN optional_in(line, after_faculty(first))
       ELSE IF ws(line, p) >= 2 THEN optional_in(line, first)
       ELSE -1

\* \s+(?:in\s+)? at offset p: the offset where group 2 starts, or -1
short_field_start(line, p) ==
    IF ws(line, p) = 0 THEN -1 ELSE optional_in(line, p + ws(line, p))

\* \s+ at offset p: the offset where group 2 starts, or -1
dutch_field_start(line, p) == IF ws(line, p) = 0 THEN -1 ELSE p + ws(line, p)

\* one of degree_patterns on the line: "<group 1> in <group 2>", or None
degree_match(line, words, field_start(_)) ==
    LET hits == {i \in 0..Len(line) :
                    \E word \in words_at(line, i, words) : field_start(i + Len(word)) >= 0}
        title(i, word, field) ==
            IF field # <<>> THEN Some(Slice(line, i, i + Len(word)) \o <<" ","i","n"," ">> \o strip(field))
            ELSE Some(Slice(line, i, i + Len(word)))
        with_field(i, word) == title(i, word, Slice(line, field_start(i + Len(word)), Len(line)))
        match_at(i) ==
            with_field(i, CHOOSE w \in words_at(line, i, words) : field_start(i + Len(w)) >= 0)
    IN IF hits = {} THEN None ELSE match_at(SetMin(hits))

degree_keywords ==
    { <<"b","a","c","h","e","l","o","r">>, <<"m","a","s","t","e","r">>, <<"p","h","d">>, <<"d","o","c","t","o","r","a","t","e">>, <<"m","s","c">>, <<"b","s","c">>, <<"m","b","a">>, <<"m","a">>, <<"b","a">>,
      <<"h","b","o">>, <<"w","o">>, <<"m","b","o">>, <<"d","o","c","t","o","r","a","a","l">>, <<"s","o","c","i","o","l","o","g","i","e">>, <<"h","r","m">>, <<"i","n","f","o","r","m","a","t","i","c","a">>,
      <<"c","o","m","p","u","t","e","r"," ","s","c","i","e","n","c","e">> }

\* the title a line gives: degree_patterns in order, then the keyword fallback
degree_title(line) ==
    LET full(p) == degree_field_start(line, p)
        short(p) == short_field_start(line, p)
        dutch(p) == dutch_field_start(line, p)
        title_of(found) ==
            LET matching == {k \in 1..3 : found[k] # None}
            IN IF matching # {} THEN found[SetMin(matching)]
               ELSE IF (\E kw \in degree_keywords : contains(lower(line), kw)) \/ isupper(line)
               THEN Some(line)
               ELSE None
    IN title_of(<< degree_match(line, { <<"b","a","c","h","e","l","o","r">>, <<"m","a","s","t","e","r">>, <<"d","o","c","t","o","r">>, <<"p","h","d">>,
                                         <<"d","o","c","t","o","r","a","t","e">> }, full),
                    degree_match(line, { <<"b","s","c">>, <<"m","s","c">>, <<"m","b","a">>, <<"p","h","d">>, <<"m","a">>, <<"b","a">>,
                                         <<"b","e","n","g">>, <<"m","e","n","g">>, <<"l","l","b">>, <<"l","l","m">> }, short),
                    degree_match(line, { <<"h","b","o">>, <<"w","o">>, <<"m","b","o">>, <<"d","o","c","t","o","r","a","a","l">> }, dutch) >>)

\* a line that follows the date line of an entry: grade, organization or title
education_detail(current_edu, line) ==
    LET named(graded, title) ==
            IF /\ ~truthy(graded.organization)
               /\ \E keyword \in organization_keywords : contains(lower(line), keyword)
            THEN [graded EXCEPT !.organization = Some(line)]
            ELSE IF ~truthy(graded.title) /\ title # None
            THEN [graded EXCEPT !.title = title]
            ELSE graded
        graded_by(grade) ==
            named(IF ~truthy(current_edu.description) /\ grade # None
                  THEN [current_edu EXCEPT !.description = grade]
                  ELSE current_edu,
                  degree_title(line))
    IN graded_by(grade_match(line))

\* date(year, 9, 1) and date(year, 6, 30) exist for datetime.MINYEAR..MAXYEAR only
valid_year(year) == year >= 1 /\ year <= 9999

\* what a field extractor hands back: the list it returns, or the exception
Return(list) == [raised |-> "none", value |-> list]
Raise(exception) == [raised |-> exception, value |-> <<>>]

\* the for loop of GenericPDFExtractor._extract_education from line k on;
\* current_edu is None or the entry being filled
RECURSIVE generic_education_loop(_, _, _, _)
generic_education_loop(lines, k, current_edu, education_list) ==
    LET line_stripped == strip(lines[k])
        dated(start_year, end_year) ==
            IF ~valid_year(start_year) \/ ~valid_year(end_year) THEN Raise("ValueError")
            ELSE generic_education_loop(
                     lines, k + 1,
                     <<[BareEducation EXCEPT !.start_date = Some(Date(start_year, 9, 1)),
                                             !.end_date = Some(Date(end_year, 6, 30))]>>,
                     education_list \o current_edu)
        line_with(date_match, graduated) ==
            IF date_match # None \/ graduated >= 0
            THEN dated(IF date_match # None THEN val(date_match).start_year ELSE graduated - 4,
                       IF date_match # None THEN val(date_match).end_year ELSE graduated)
            ELSE IF current_edu = None
            THEN generic_education_loop(lines, k + 1, current_edu, education_list)
            ELSE generic_education_loop(lines, k + 1,
                                        <<education_detail(val(current_edu), line_stripped)>>,
                                        education_list)
    IN IF k > Len(lines) THEN Return(education_list \o current_edu)
       ELSE IF line_stripped = <<>>
       THEN generic_education_loop(lines, k + 1, current_edu, education_list)
       ELSE line_with(year_range(line_stripped), graduated_year(line_stripped))

GenericPDFExtractor_extract_education(text) ==
    LET or_fallback(result) ==
            IF result.raised = "none" /\ result.value = <<>>
            THEN Return(<<[BareEducation EXCEPT
                             !.description = Some(Slice(strip(text), 0, DescriptionMax))]>>)
            ELSE result
    IN or_fallback(generic_education_loop(split_chars(text, {"\n"}), 1, None, <<>>))

\* title and organization from the rest of a DOCX line after the year range
docx_education(edu, remaining) ==
    IF remaining = <<>> THEN edu
    ELSE IF contains(remaining, <<",">>)
    THEN [edu EXCEPT !.title = Some(strip(Slice(remaining, 0, find(remaining, <<",">>)))),
                     !.organization =
                         Some(strip(Slice(remaining, find(remaining, <<",">>) + 1,
                                          Len(remaining))))]
    ELSE [edu EXCEPT !.title = Some(remaining)]

\* the for loop of DOCXExtractor._extract_education from line k on
RECURSIVE docx_education_loop(_, _, _)
docx_education_loop(lines, k, education_list) ==
    LET line_stripped == strip(lines[k])
        date_match == year_range(line_stripped)
        start_year == val(date_match).start_year
        end_year == val(date_match).end_year
        edu == [BareEducation EXCEPT !.start_date = Some(Date(start_year, 9, 1)),
                                     !.end_date = Some(Date(end_year, 6, 30))]
        remaining == strip(Slice(line_stripped, val(date_match).end, Len(line_stripped)))
    IN IF k > Len(lines) THEN Return(education_list)
       ELSE IF Len(line_stripped) < 10 \/ date_match = None
       THEN docx_education_loop(lines, k + 1, education_list)
       ELSE IF ~valid_year(start_year) \/ ~valid_year(end_year) THEN Raise("ValueError")
       ELSE docx_education_loop(lines, k + 1,
                                education_list \o <<docx_education(edu, remaining)>>)

DOCXExtractor_extract_education(text) ==
    docx_education_loop(split_chars(text, {"\n"}), 1, <<>>)

(***************************************************************************)
(* Certifications: GenericPDFExtractor._extract_certifications and         *)
(* DOCXExtractor._extract_certifications                                   *)
(***************************************************************************)
Certification(name) == [name |-> name, issuer |-> None, date |-> None]

\* cert_keywords, as keyword.lower() is compared
cert_keywords ==
    { <<"c","e","r","t","i","f","i","e","d">>, <<"c","e","r","t","i","f","i","c","a","t","i","o","n">>, <<"c","e","r","t","i","f","i","c","a","t","e">>, <<"f","o","u","n","d","a","t","i","o","n">>, <<"p","r","o","f","e","s","s","i","o","n","a","l">>,
      <<"a","w","s">>, <<"a","z","u","r","e">>, <<"m","i","c","r","o","s","o","f","t">>, <<"g","o","o","g","l","e">>, <<"o","r","a","c","l","e">>, <<"v","e","r","t","r","o","u","w","e","n","s","p","e","r","s","o","o","n">>,
      <<"c","h","a","n","g","e">>, <<"m","a","n","a","g","e","m","e","n","t">>, <<"a","g","i","l","e">>, <<"s","c","r","u","m">>, <<"c","o","a","c","h">>, <<"c","o","n","s","u","l","t","a","n","t">>, <<"s","p","e","c","i","a","l","i","s","t">>,
      <<"d","i","p","l","o","m","a">>, <<"l","i","c","e","n","s","e">>, <<"t","r","a","i","n","i","n","g">>, <<"c","o","u","r","s","e">>, <<"c","u","r","s","u","s">>, <<"o","p","l","e","i","d","i","n","g">> }

\* re.search(r"^page\s+\d+|^certifications?$|^licenses?$|^certificaten$", line,
\* re.IGNORECASE)
generic_cert_header(line) ==
    \/ /\ MatchAtIgnoreCase(line, 0, <<"p","a","g","e">>)
       /\ ws(line, 4) >= 1
       /\ run(line, 4 + ws(line, 4), Digits) >= 1
    \/ lower(line) \in { <<"c","e","r","t","i","f","i","c","a","t","i","o","n">>, <<"c","e","r","t","i","f","i","c","a","t","i","o","n","s">>, <<"l","i","c","e","n","s","e">>, <<"l","i","c","e","n","s","e","s">>,
                         <<"c","e","r","t","i","f","i","c","a","t","e","n">> }

\* [A-Z][a-z]+ at offset p: the offset where it ends, or -1
capitalized_word(line, p) ==
    IF p >= 0 /\ p < Len(line) /\ line[p + 1] \in UpperSet /\ run(line, p + 1, LowerSet) >= 1
    THEN p + 1 + run(line, p + 1, LowerSet)
    ELSE -1

\* \s+ at offset p, if p is an offset: the offset where it ends, or -1
blanks(line, p) == IF p >= 0 /\ ws(line, p) >= 1 THEN p + ws(line, p) ELSE -1

\* any(re.search(pattern, line) for pattern in cert_patterns)
cert_pattern(line) ==
    \E i \in 0..Len(line) :
        /\ Boundary(line, i)
        /\ \/ /\ run(line, i, UpperSet) \in 2..6
              /\ Boundary(line, i + run(line, i, UpperSet))
           \/ LET q == blanks(line, capitalized_word(line, i))
              IN /\ q >= 0
                 /\ \/ run(line, q, Digits) >= 1
                    \/ MatchAt(line, q, <<"v">>) /\ run(line, q + 1, Digits) >= 1
           \/ LET q == i + run(line, i, UpperSet) + ws(line, i + run(line, i, UpperSet))
              IN /\ run(line, i, UpperSet) >= 2
                 /\ run(line, q, Digits) \in 3..5
                 /\ Boundary(line, q + run(line, q, Digits))
           \/ capitalized_word(line,
                  blanks(line, capitalized_word(line,
                      blanks(line, capitalized_word(line, i))))) >= 0

\* len(line.split()) >= 2 and line[0].isupper() and not line.isupper() and len(line) > 10
capitalized_line(line) ==
    /\ \E i \in 1..Len(line) : line[i] \in Whitespace
    /\ line[1] \in UpperSet
    /\ ~isupper(line)
    /\ Len(line) > 10

\* re.search(r"#\d+|ID:\s*\w+|Credential:\s*\w+", line, re.IGNORECASE)
credential_id(line) ==
    \E i \in 0..Len(line) :
        \/ MatchAt(line, i, <<"#">>) /\ run(line, i + 1, Digits) >= 1
        \/ \E label \in { <<"i","d",":">>, <<"c","r","e","d","e","n","t","i","a","l",":">> } :
              /\ MatchAtIgnoreCase(line, i, label)
              /\ WordAt(line, i + Len(label) + ws(line, i + Len(label)) + 1)

\* Certification(name=line) with the date of the first year 19xx or 20xx on the line
generic_certification(line) ==
    IF find_year(line) >= 0
    THEN [Certification(line) EXCEPT !.date = Some(Date(find_year(line), 1, 1))]
    ELSE Certification(line)

\* the lines of the text that GenericPDFExtractor._extract_certifications keeps
generic_cert_lines(text) ==
    LET lines == split_chars(text, {"\n"})
        is_cert(line) ==
            /\ Len(line) >= 5
            /\ ~generic_cert_header(line)
            /\ \/ \E keyword \in cert_keywords : contains(lower(line), keyword)
               \/ cert_pattern(line)
               \/ capitalized_line(line)
               \/ credential_id(line)
    IN SelectSeq([k \in 1..Len(lines) |-> strip(lines[k])], is_cert)

GenericPDFExtractor_extract_certifications(text) ==
    LET kept == generic_cert_lines(text)
    IN Return([k \in 1..Len(kept) |-> generic_certification(kept[k])])

\* the section headers and noise DOCXExtractor._extract_certifications skips
docx_cert_header(line) ==
    \/ lower(line) \in { <<"t","r","a","i","n","i","n","g">>, <<"c","e","r","t","i","f","i","c","e","r","i","n","g">>, <<"c","e","r","t","i","f","i","c","a","t","i","o","n","s">>, <<"c","e","r","t","i","f","i","c","a","t","e","s">> }
    \/ /\ MatchAtIgnoreCase(line, 0, <<"e","n">>)
       /\ ws(line, 2) >= 1
       /\ lower(Slice(line, 2 + ws(line, 2), Len(line))) \in { <<"c","e","r","t","i","f","i","c","e","r","i","n","g">>,
                                                               <<"c","e","r","t","i","f","i","c","e","r","i","n","g",":">> }

\* re.match(r"^(\d{4})\s+(.+)$", line): the year in front splits off the name; the
\* date is dropped when date(year, 1, 1) does not exist
docx_certification(line) ==
    LET year == to_int(Slice(line, 0, 4))
        cert_name == strip(Slice(line, 4 + ws(line, 4), Len(line)))
    IN IF run(line, 0, Digits) >= 4 /\ ws(line, 4) >= 1 /\ 4 + ws(line, 4) < Len(line)
       THEN IF valid_year(year)
            THEN [Certification(cert_name) EXCEPT !.date = Some(Date(year, 1, 1))]
            ELSE Certification(cert_name)
       ELSE Certification(line)

DOCXExtractor_extract_certifications(text) ==
    LET lines == split_chars(text, {"\n"})
        kept == SelectSeq([k \in 1..Len(lines) |-> strip(lines[k])],
                          LAMBDA line : Len(line) >= 5 /\ ~docx_cert_header(line))
    IN Return([k \in 1..Len(kept) |-> docx_certification(kept[k])])

(***************************************************************************)
(* From a section with years to the Europass dates: the education and      *)
(* certification extractors followed by the mapper                         *)
(***************************************************************************)
MaxDatedLines == 2

DatedLines ==
    { <<"2","0","1","4"," ","-"," ","2","0","1","8"," ","B","S","c"," ","I","n","f","o","r","m","a","t","i","c","a",","," ","A","v","a","n","s"," ","H","o","g","e","s","c","h","o","o","l">>, <<"A","f","g","e","s","t","u","d","e","e","r","d"," ","i","n"," ","2","0","1","2">>,
      <<"0","0","0","0"," ","-"," ","0","0","0","1"," ","B","a","s","i","s","s","c","h","o","o","l">>, <<"M","a","s","t","e","r"," ","o","f"," ","S","c","i","e","n","c","e"," ","i","n"," ","P","h","y","s","i","c","s">>, <<"U","n","i","v","e","r","s","i","t","e","i","t"," ","U","t","r","e","c","h","t">>,
      <<"G","P","A",":"," ","3",".","8"," ","c","u","m"," ","l","a","u","d","e">>, <<"2","0","2","0"," ","A","W","S"," ","C","e","r","t","i","f","i","e","d"," ","D","e","v","e","l","o","p","e","r">>, <<"0","0","0","0"," ","S","c","r","u","m"," ","M","a","s","t","e","r">>,
      <<"I","T","I","L"," ","v","4">>, <<"t","r","a","i","n","i","n","g">> }

DatedTexts == {join(<<"\n">>, lines) : lines \in SeqsUpTo(DatedLines, MaxDatedLines)}

\* Resume() before the sections are parsed
BlankResume ==
    [personal_info |-> NoContact @@ [first_name |-> None, last_name |-> None,
                                     photo |-> None],
     work_experience |-> <<>>,
     education |-> <<>>] @@ NoExtras

\* the text of an education or certification section is at hand
DatedInit == /\ section_text \in DatedTexts
             /\ extract_by = "none"
             /\ languages = <<>>
             /\ skills = <<>>
             /\ ParseIdle
             /\ ServiceIdle
             /\ reg_call = RegIdle
             /\ reg_result = Returned("none")
             /\ conv_in = EmptyDict
             /\ conv_pc = "idle"
             /\ europass = EmptyDict
             /\ json_data = EmptyDict
             /\ validation = EmptyDict

\* resume.<field> = <result>: the Resume goes on to the mapper unless the
\* extractor raised
Extracted(extractor, result, resume) ==
    /\ extract_by = "none"
    /\ extract_by' = extractor
    /\ extracted' = result.value
    /\ raised' = result.raised
    /\ IF result.raised = "none"
       THEN /\ conv_in' = [resume |-> resume, include_photo |-> TRUE,
                           now |-> CHOOSE now \in Clock : TRUE]
            /\ conv_pc' = "start"
       ELSE UNCHANGED <<conv_in, conv_pc>>
    /\ UNCHANGED <<section_text, languages, skills, sections, europass, json_data,
                   validation, regVars, serviceVars>>

GenericExtractEducation ==
    LET result == GenericPDFExtractor_extract_education(section_text)
    IN Extracted("generic", result, [BlankResume EXCEPT !.education = result.value])

DOCXExtractEducation ==
    LET result == DOCXExtractor_extract_education(section_text)
    IN Extracted("docx", result, [BlankResume EXCEPT !.education = result.value])

GenericExtractCertifications ==
    LET result == GenericPDFExtractor_extract_certifications(section_text)
    IN Extracted("generic", result, [BlankResume EXCEPT !.certifications = result.value])

DOCXExtractCertifications ==
    LET result == DOCXExtractor_extract_certifications(section_text)
    IN Extracted("docx", result, [BlankResume EXCEPT !.certifications = result.value])

DatedNext ==
    \/ GenericExtractEducation
    \/ DOCXExtractEducation
    \/ GenericExtractCertifications
    \/ DOCXExtractCertifications
    \/ MapToEuropass
    \/ ValidateOutput

SpecDated == DatedInit /\ [][DatedNext]_vars

\* C18: the field extractors never raise: for every section text, also one whose
\* four-digit year tokens are no valid calendar years, _extract_education and
\* _extract_certifications (like _extract_work_experience, _extract_languages and
\* _extract_skills) of GenericPDFExtractor and DOCXExtractor return a list.
C18_NeverRaises == extract_by # "none" => raised = "none"

\* the Date dicts of a mapped education entry and of a mapped certification
DatesOf(mapped) ==
    {PeriodOf(mapped)[key] : key \in DOMAIN PeriodOf(mapped) \cap {"From", "To"}}
      \cup {mapped[key] : key \in DOMAIN mapped \cap {"Date"}}

\* C16: a date that an extractor made up from a year alone (January 1 of the year
\* of a certification; September 1 and June 30 of the years of an education
\* range) is emitted by the mapper with Year only, without Month and without Day.
C16_YearOnly ==
    (extract_by # "none" /\ conv_pc \in {"mapped", "done"}) =>
        LET info == europass.LearnerInfo
            entries == (IF "Education" \in DOMAIN info THEN info.Education ELSE <<>>)
                         \o (IF "Achievement" \in DOMAIN info THEN info.Achievement ELSE <<>>)
        IN \A i \in 1..Len(entries) : \A d \in DatesOf(entries[i]) : DOMAIN d = {"Year"}

(***************************************************************************)
(* Regular expressions of the re module, matched by backtracking           *)
(***************************************************************************)
\* A pattern is a tree; ends(r, s, i) lists the offsets where a match of r that
\* starts at offset i can end, in the order in which the backtracking matcher
\* of the re module tries them, so that its head is the match re reports.
Chars(set) == [t |-> "set", chars |-> set]
WordBoundary == [t |-> "b"]
Cat(items) == [t |-> "cat", items |-> items]
Alt(items) == [t |-> "alt", items |-> items]
\* greedy r{lo,hi}; hi = -1 stands for no upper limit
Rep(r, lo, hi) == [t |-> "rep", r |-> r, lo |-> lo, hi |-> hi]
Optional(r) == Rep(r, 0, 1)
OneOrMore(r) == Rep(r, 1, -1)
\* a literal under re.IGNORECASE, given in lower case
Literal(p) == [t |-> "literal", p |-> p]

RECURSIVE ends(_, _, _)
RECURSIVE cat_ends(_, _, _, _)
RECURSIVE cat_over(_, _, _, _)
RECURSIVE alt_ends(_, _, _, _)

\* the number of characters of s from offset i on that are in the class
run_length(chars, s, i) ==
    SetMin({k \in 0..(Len(s) - i) : k = Len(s) - i \/ s[i + k + 1] \notin chars})

\* the patterns repeat character classes only; one more repetition is tried
\* before the repetition is left, so the longest run comes first
rep_ends(r, lo, hi, s, i) ==
    LET n == run_length(r.chars, s, i)
        most == IF hi < 0 THEN n ELSE Min(n, hi)
    IN [k \in 1..Max(0, most - lo + 1) |-> i + most - k + 1]

ends(r, s, i) ==
    CASE r.t = "set" -> IF i < Len(s) /\ s[i + 1] \in r.chars THEN <<i + 1>> ELSE <<>>
      [] r.t = "b" -> IF Boundary(s, i) THEN <<i>> ELSE <<>>
      [] r.t = "literal" -> IF MatchAtIgnoreCase(s, i, r.p) THEN <<i + Len(r.p)>> ELSE <<>>
      [] r.t = "cat" -> cat_ends(r.items, 1, s, i)
      [] r.t = "alt" -> alt_ends(r.items, 1, s, i)
      [] r.t = "rep" -> rep_ends(r.r, r.lo, r.hi, s, i)

cat_ends(items, k, s, i) ==
    IF k > Len(items) THEN <<i>> ELSE cat_over(items, k, s, ends(items[k], s, i))

cat_over(items, k, s, found) ==
    IF found = <<>> THEN <<>>
    ELSE cat_ends(items, k + 1, s, Head(found)) \o cat_over(items, k, s, Tail(found))

alt_ends(items, k, s, i) ==
    IF k > Len(items) THEN <<>> ELSE ends(items[k], s, i) \o alt_ends(items, k + 1, s, i)

Match(start, end) == [start |-> start, end |-> end]

\* pattern.search(s, pos): the leftmost match from offset pos on, or None
re_search(r, s, pos) ==
    LET starts == {p \in pos..Len(s) : ends(r, s, p) # <<>>}
    IN IF starts = {} THEN None
       ELSE Some(Match(SetMin(starts), Head(ends(r, s, SetMin(starts)))))

\* re.finditer(r, s) from offset pos on: the matches, none overlapping another
RECURSIVE re_finditer(_, _, _)
re_finditer(r, s, pos) ==
    LET m == re_search(r, s, pos)
    IN IF m = None THEN <<>>
       ELSE <<val(m)>> \o re_finditer(r, s, IF val(m).end = val(m).start
                                            THEN val(m).end + 1 ELSE val(m).end)

\* match.group()
group(s, m) == Slice(s, m.start, m.end)

(***************************************************************************)
(* PDFExtractor: core/extract/pdf_extractor.py, the extractor that         *)
(* converter.extract_resume runs on a .pdf file                            *)
(***************************************************************************)
Letters == UpperSet \cup LowerSet

\* \b[A-Za-z0-9._%+-]+@[A-Za-z0-9.-]+\.[A-Z|a-z]{2,}\b
email_pattern ==
    Cat(<<WordBoundary,
          OneOrMore(Chars(Letters \cup Digits \cup {".", "_", "%", "+", "-"})),
          Chars({"@"}),
          OneOrMore(Chars(Letters \cup Digits \cup {".", "-"})),
          Chars({"."}),
          Rep(Chars(Letters \cup {"|"}), 2, -1),
          WordBoundary>>)

PhoneSeparators == Whitespace \cup {"-", "."}

\* [\+]?[(]?[0-9]{1,4}[)]?[-\s\.]?[(]?[0-9]{1,4}[)]?[-\s\.]?[0-9]{1,4}[-\s\.]?[0-9]{1,9}
phone_pattern ==
    Cat(<<Optional(Chars({"+"})), Optional(Chars({"("})), Rep(Chars(Digits), 1, 4),
          Optional(Chars({")"})), Optional(Chars(PhoneSeparators)),
          Optional(Chars({"("})), Rep(Chars(Digits), 1, 4),
          Optional(Chars({")"})), Optional(Chars(PhoneSeparators)),
          Rep(Chars(Digits), 1, 4), Optional(Chars(PhoneSeparators)),
          Rep(Chars(Digits), 1, 9)>>)

PhoneWindow == 500
NameLines == 10
NameLineMax == 50

\* re.findall(pattern, s)[0], or None
first_found(pattern, s) ==
    IF re_search(pattern, s, 0) = None THEN None
    ELSE Some(group(s, val(re_search(pattern, s, 0))))

\* line.split(): the words between runs of whitespace
RECURSIVE split_words(_)
split_words(line) ==
    LET s == lstrip(line)
        stops == {i \in 1..Len(s) : s[i] \in Whitespace}
    IN IF s = <<>> THEN <<>>
       ELSE IF stops = {} THEN <<s>>
       ELSE <<SubSeq(s, 1, SetMin(stops) - 1)>>
              \o split_words(SubSeq(s, SetMin(stops), Len(s)))

\* the test of the name loop on a stripped line
looks_like_name(line) ==
    /\ line # <<>>
    /\ Len(split_words(line)) >= 2
    /\ Len(line) < NameLineMax
    /\ ~\E k \in 1..Len(line) : line[k] \in Digits
    /\ ~contains(line, <<"@">>)

\* the name loop over lines[:10]: (first_name, last_name) of the first line
\* that passes, or (None, None)
extract_name(text) ==
    LET lines == stripped(SubSeq(split_chars(text, {"\n"}), 1,
                                 Min(NameLines, Len(split_chars(text, {"\n"})))))
        hits == {k \in 1..Len(lines) : looks_like_name(lines[k])}
        parts == split_words(lines[SetMin(hits)])
    IN IF hits = {} THEN <<None, None>>
       ELSE <<Some(parts[1]), Some(join(<<" ">>, Tail(parts)))>>

\* PDFExtractor._extract_personal_info
PDFExtractor_extract_personal_info(text) ==
    [NoContact EXCEPT !.email = first_found(email_pattern, text),
                      !.phone = first_found(phone_pattern, Slice(text, 0, PhoneWindow))]
      @@ [first_name |-> extract_name(text)[1], last_name |-> extract_name(text)[2],
          photo |-> None]

blank == OneOrMore(Chars(Whitespace))

\* section_patterns of PDFExtractor._split_into_sections
pdf_section_patterns ==
    [summary |-> Alt(<<Cat(<<Literal(<<"p","r","o","f","e","s","s","i","o","n","a","l">>), blank, Literal(<<"s","u","m","m","a","r","y">>)>>),
                       Literal(<<"p","r","o","f","i","l","e">>), Literal(<<"s","u","m","m","a","r","y">>), Literal(<<"o","b","j","e","c","t","i","v","e">>)>>),
     experience |-> Alt(<<Cat(<<Literal(<<"w","o","r","k">>), blank, Literal(<<"e","x","p","e","r","i","e","n","c","e">>)>>),
                          Cat(<<Literal(<<"p","r","o","f","e","s","s","i","o","n","a","l">>), blank, Literal(<<"e","x","p","e","r","i","e","n","c","e">>)>>),
                          Literal(<<"e","m","p","l","o","y","m","e","n","t">>), Literal(<<"e","x","p","e","r","i","e","n","c","e">>)>>),
     education |-> Alt(<<Literal(<<"e","d","u","c","a","t","i","o","n">>), Literal(<<"a","c","a","d","e","m","i","c">>),
                         Literal(<<"q","u","a","l","i","f","i","c","a","t","i","o","n","s">>)>>),
     skill |-> Alt(<<Literal(<<"s","k","i","l","l","s">>), Literal(<<"c","o","m","p","e","t","e","n","c","i","e","s">>), Literal(<<"e","x","p","e","r","t","i","s","e">>)>>),
     language |-> Alt(<<Literal(<<"l","a","n","g","u","a","g","e","s">>),
                        Cat(<<Literal(<<"l","a","n","g","u","a","g","e">>), blank, Literal(<<"s","k","i","l","l","s">>)>>)>>)]

\* the section keys in the order of str comparison
pdf_section_keys == <<"education", "experience", "language", "skill", "summary">>

\* the tuples (match.start(), section_key, match.group()) of one key
pdf_key_positions(text, key) ==
    LET matches == re_finditer(pdf_section_patterns[key], text, 0)
    IN [k \in 1..Len(matches) |->
          [start |-> matches[k].start, key |-> key, header |-> group(text, matches[k])]]

\* tuple comparison on (start, key); two matches of one key never start together
position_before(p, q) ==
    \/ p.start < q.start
    \/ /\ p.start = q.start
       /\ \E i, j \in 1..Len(pdf_section_keys) :
            i < j /\ pdf_section_keys[i] = p.key /\ pdf_section_keys[j] = q.key

\* list.sort() of a list of positions
RECURSIVE sorted_positions(_)
sorted_positions(positions) ==
    IF positions = {} THEN <<>>
    ELSE LET first == CHOOSE p \in positions :
                        \A q \in positions \ {p} : position_before(p, q)
         IN <<first>> \o sorted_positions(positions \ {first})

\* section_positions after section_positions.sort()
pdf_section_positions(text) ==
    sorted_positions(UNION {Range(pdf_key_positions(text, pdf_section_keys[k])) :
                              k \in 1..Len(pdf_section_keys)})

\* text[start:end].strip() without the header it starts with, stripped again
pdf_section_content(text, start, end, header) ==
    LET content == strip(Slice(text, start, end))
    IN IF MatchAtIgnoreCase(content, 0, lower(header))
       THEN strip(Slice(content, Len(header), Len(content)))
       ELSE content

\* the loop sections[key] = content from the i-th position on: a later section
\* of the same key replaces an earlier one
RECURSIVE pdf_sections_from(_, _, _, _)
pdf_sections_from(text, positions, i, sections_so_far) ==
    IF i > Len(positions) THEN sections_so_far
    ELSE LET end == IF i + 1 <= Len(positions) THEN positions[i + 1].start ELSE Len(text)
             content == pdf_section_content(text, positions[i].start, end,
                                            positions[i].header)
         IN pdf_sections_from(text, positions, i + 1,
                              (positions[i].key :> content) @@ sections_so_far)

\* PDFExtractor._split_into_sections
PDFExtractor_split_into_sections(text) ==
    pdf_sections_from(text, pdf_section_positions(text), 1, EmptyDict)

\* PDFExtractor._extract_work_experience
PDFExtractor_extract_work_experience(text) ==
    IF strip(text) # <<>>
    THEN <<[BareWork EXCEPT !.description = Some(Slice(strip(text), 0, DescriptionMax))]>>
    ELSE <<>>

\* PDFExtractor._extract_education
PDFExtractor_extract_education(text) ==
    IF strip(text) # <<>>
    THEN <<[BareEducation EXCEPT
              !.description = Some(Slice(strip(text), 0, DescriptionMax))]>>
    ELSE <<>>

pdf_language_names == << <<"E","n","g","l","i","s","h">>, <<"D","u","t","c","h">>, <<"G","e","r","m","a","n">>, <<"F","r","e","n","c","h">>, <<"S","p","a","n","i","s","h">>,
                         <<"I","t","a","l","i","a","n">>, <<"P","o","r","t","u","g","u","e","s","e">>, <<"C","h","i","n","e","s","e">>, <<"J","a","p","a","n","e","s","e">>,
                         <<"R","u","s","s","i","a","n">>, <<"A","r","a","b","i","c">> >>

ContextBefore == 50
ContextAfter == 100

\* the body of the language loop: the CEFR level found near the first
\* occurrence of the name is written to all four skills
pdf_language(text, lang) ==
    LET at == find(lower(text), lower(lang))
        context == Slice(text, Max(0, at - ContextBefore), at + ContextAfter)
    IN IF cefr_matches(context) # {}
       THEN set_levels(Language(lang), cefr_group(context))
       ELSE Language(lang)

\* PDFExtractor._extract_languages
PDFExtractor_extract_languages(text) ==
    LET found == languages_found(pdf_language_names, text)
    IN [k \in 1..Len(found) |-> pdf_language(text, found[k])]

\* the characters of the class [,<U+00E2><U+20AC><U+00A2>\n] of the source file
pdf_skill_delimiters == {",", "U+00E2", "U+20AC", "U+00A2", "\n"}

SkillMin == 2
SkillMax == 100

\* PDFExtractor._extract_skills
PDFExtractor_extract_skills(text) ==
    LET items == SelectSeq(stripped(split_chars(text, pdf_skill_delimiters)),
                           LAMBDA item : /\ item # <<>>
                                         /\ Len(item) > SkillMin
                                         /\ Len(item) < SkillMax)
    IN [k \in 1..Len(items) |-> Skill(items[k])]

\* sections.get("summary") or sections.get("profile")
pdf_summary(sections_dict) ==
    IF "summary" \in DOMAIN sections_dict /\ sections_dict["summary"] # <<>>
    THEN Some(sections_dict["summary"])
    ELSE IF "profile" \in DOMAIN sections_dict THEN Some(sections_dict["profile"])
    ELSE None

\* PDFExtractor._parse_text_to_resume, the fields it assigns to a new Resume
PDFExtractor_parse_text_to_resume(text) ==
    LET sections_dict == PDFExtractor_split_into_sections(text)
    IN [personal_info |-> PDFExtractor_extract_personal_info(text),
        work_experience |->
            IF "experience" \in DOMAIN sections_dict
            THEN PDFExtractor_extract_work_experience(sections_dict["experience"])
            ELSE <<>>,
        education |->
            IF "education" \in DOMAIN sections_dict
            THEN PDFExtractor_extract_education(sections_dict["education"])
            ELSE <<>>,
        languages |->
            IF "language" \in DOMAIN sections_dict
            THEN PDFExtractor_extract_languages(sections_dict["language"])
            ELSE <<>>,
        skills |->
            IF "skill" \in DOMAIN sections_dict
            THEN PDFExtractor_extract_skills(sections_dict["skill"])
            ELSE <<>>,
        certifications |-> <<>>,
        summary |->
            IF "summary" \in DOMAIN sections_dict \/ "profile" \in DOMAIN sections_dict
            THEN pdf_summary(sections_dict)
            ELSE None]

(***************************************************************************)
(* A conversion call: PDFExtractor.extract, core/converter.py and          *)
(* core/validate/schema_validator.py (XML)                                 *)
(***************************************************************************)
\* dict.get(key)
dict_get(d, key) == IF key \in DOMAIN d THEN Some(d[key]) ELSE None

\* PDFExtractor._ocr_page: what Tesseract reads on the page image ("" when the
\* OCR packages are not installed)
ocr_page(page) == page.scan

\* PDFExtractor._extract_with_pymupdf on an opened document
extract_with_pymupdf(doc, use_ocr) ==
    [text |-> join(<<"\n","\n">>,
                   [k \in 1..Len(doc.pages) |->
                      IF strip(doc.pages[k].text) = <<>> /\ use_ocr
                      THEN ocr_page(doc.pages[k]) ELSE doc.pages[k].text]),
     metadata |->
        (IF ~IsEmpty(doc.metadata)
         THEN [title |-> dict_get(doc.metadata, "title"),
               author |-> dict_get(doc.metadata, "author"),
               subject |-> dict_get(doc.metadata, "subject"),
               keywords |-> dict_get(doc.metadata, "keywords")]
         ELSE EmptyDict)
        @@ [page_count |-> Len(doc.pages), format |-> <<"P","D","F">>, extractor |-> <<"p","y","m","u","p","d","f">>]]

\* PDFExtractor._extract_with_pdfminer
extract_with_pdfminer(text) ==
    [text |-> text, metadata |-> [format |-> <<"P","D","F">>, extractor |-> <<"p","d","f","m","i","n","e","r">>]]

\* the try/except of PDFExtractor.extract: PyMuPDF, and pdfminer.six when
\* PyMuPDF raises (fitz = None)
extract_text(document, use_ocr) ==
    IF document.fitz # None THEN extract_with_pymupdf(val(document.fitz), use_ocr)
    ELSE extract_with_pdfminer(document.pdfminer)

\* dict.update(other)
dict_update(d, other) == other @@ d

\* PDFExtractor.extract as one value: the parsed fields, raw_text and the
\* metadata written into the new Resume's own dict
PDFExtractor_extract(document, use_ocr) ==
    LET read == extract_text(document, use_ocr)
    IN PDFExtractor_parse_text_to_resume(read.text)
         @@ [raw_text |-> Some(read.text), metadata |-> dict_update(EmptyDict, read.metadata)]

\* the files of the model: what PyMuPDF and pdfminer.six give for each
Page(text, scan) == [text |-> text, scan |-> scan]

Documents == {
    [file_path |-> <<"/","t","m","p","/","c","v",".","p","d","f">>,
     fitz |-> Some([pages |-> <<Page(<<"J","a","n"," ","J","a","n","s","e","n","\n","j","a","n","@","e","x","a","m","p","l","e",".","n","l","\n","E","x","p","e","r","i","e","n","c","e","\n","D","e","v","e","l","o","p","e","r"," ","a","t"," ","A","c","m","e">>,
                                     <<>>),
                                Page(<<"S","k","i","l","l","s","\n","P","y","t","h","o","n",","," ","S","c","r","u","m">>, <<>>)>>,
                    metadata |-> [title |-> <<"C","V">>, author |-> <<"J","a","n"," ","J","a","n","s","e","n">>]]),
     pdfminer |-> <<>>],
    [file_path |-> <<"/","t","m","p","/","o","l","d",".","P","D","F">>,
     fitz |-> None,
     pdfminer |-> <<"S","u","m","m","a","r","y","\n","E","n","g","i","n","e","e","r","\n","L","a","n","g","u","a","g","e","s","\n","D","u","t","c","h"," ","C","2">>],
    [file_path |-> <<"/","t","m","p","/","s","c","a","n",".","p","d","f">>,
     fitz |-> Some([pages |-> <<Page(<<" ","\n">>, <<"P","i","e","t"," ","P","i","e","t","e","r","s","e","n","\n","E","d","u","c","a","t","i","o","n","\n","B","S","c"," ","I","n","f","o","r","m","a","t","i","c","a">>)>>,
                    metadata |-> EmptyDict]),
     pdfminer |-> <<>>],
    [file_path |-> <<"/","t","m","p","/","n","o","t","e","s",".","t","x","t">>, fitz |-> None, pdfminer |-> <<>>] }

\* the XML packages of the installation: lxml (whose parser reports the root
\* tag either bare or qualified by the xmlns it was written with), xmltodict
\* alone, or neither
XmlPackages == {"lxml", "lxml_qualified", "xmltodict", "none"}

\* is europass_cv_v3.xsd in the schemas directory: the package ships none
SchemaAvailable == FALSE

LxmlMissingMsg == <<"l","x","m","l"," ","n","o","t"," ","a","v","a","i","l","a","b","l","e"," ","f","o","r"," ","X","M","L"," ","v","a","l","i","d","a","t","i","o","n">>
RootMsg == <<"R","o","o","t"," ","e","l","e","m","e","n","t"," ","m","u","s","t"," ","b","e"," ","'","E","u","r","o","p","a","s","s","'">>

\* convert_to_xml: the element tree the XML string spells, or ImportError when
\* neither lxml nor xmltodict can be imported
convert_to_xml(data, packages) ==
    IF packages = "none" THEN Raise("ImportError")
    ELSE Return([Europass |-> data])

\* SchemaValidator.validate_xml on the string convert_to_xml produced
validate_xml(xml, packages) ==
    IF packages \in {"lxml", "lxml_qualified"}
    THEN IF ~SchemaAvailable /\ packages = "lxml_qualified"
         THEN ValidationResult(<<RootMsg>>)
         ELSE ValidationResult(<<>>)
    ELSE ValidationResult(<<LxmlMissingMsg>>)

\* ConversionResult
ConversionResult(json, xml, validation_errors) ==
    [json_data |-> json, xml_data |-> xml, validation_errors |-> validation_errors]

\* convert_to_europass steps 3 and 4 and the return: what the caller gets for
\* the EuropassCV, or the exception
convert_output(cv, output_format, validate, packages) ==
    LET json == IF output_format \in {"json", "both"} THEN Some(to_json(cv)) ELSE None
        made == IF output_format \in {"xml", "both"}
                THEN convert_to_xml(to_json(cv), packages) ELSE Return(<<>>)
        xml == IF output_format \in {"xml", "both"} THEN Some(made.value) ELSE None
        json_errors == IF validate /\ json # None /\ ~IsEmpty(val(json))
                       THEN validate_json(val(json)).errors ELSE <<>>
        xml_errors == IF validate /\ xml # None
                      THEN validate_xml(val(xml), packages).errors ELSE <<>>
        result == ConversionResult(json, xml, json_errors \o xml_errors)
    IN IF made.raised # "none" THEN made
       ELSE IF output_format = "json" THEN Return(val(json))
       ELSE IF output_format = "xml" THEN Return(val(xml))
       ELSE Return(result)

\* convert_to_europass(file_path, locale, include_photo, output_format, use_ocr, validate)
convert_to_europass(document, include_photo, output_format, use_ocr, validate, now, packages) ==
    IF extract_resume(document).exception # "none"
    THEN Raise(extract_resume(document).exception)
    ELSE convert_output(map(PDFExtractor_extract(document, use_ocr), include_photo, now),
                        output_format, validate, packages)

(***************************************************************************)
(* POST /convert: api/main.py                                              *)
(***************************************************************************)
NoFileMsg == <<"N","o"," ","f","i","l","e"," ","p","r","o","v","i","d","e","d">>
SuccessMsg == <<"C","o","n","v","e","r","s","i","o","n"," ","s","u","c","c","e","s","s","f","u","l">>
UnsupportedUploadMsg(file_ext) ==
    <<"U","n","s","u","p","p","o","r","t","e","d"," ","f","i","l","e"," ","f","o","r","m","a","t",":"," ">> \o file_ext \o <<"."," ","S","u","p","p","o","r","t","e","d",":"," ",".","p","d","f",","," ",".","d","o","c","x",","," ",".","d","o","c">>
InvalidFormatMsg(output_format) ==
    <<"I","n","v","a","l","i","d"," ","o","u","t","p","u","t","_","f","o","r","m","a","t",":"," ">> \o output_format \o <<"."," ","M","u","s","t"," ","b","e",":"," ","j","s","o","n",","," ","x","m","l",","," ","o","r"," ","b","o","t","h">>
ConversionFailedMsg(exception) == <<"C","o","n","v","e","r","s","i","o","n"," ","f","a","i","l","e","d",":"," ">> \o exception

\* raise HTTPException(status_code, detail)
HTTPException(status_code, detail) ==
    [status |-> status_code, detail |-> detail, success |-> FALSE, data |-> None,
     xml |-> None, validation_errors |-> <<>>, message |-> None]

\* ConvertResponse(success=True, ...): validation_errors is [] unless it is passed
ConvertResponse(data, xml, validation_errors) ==
    [status |-> 200, detail |-> <<>>, success |-> TRUE, data |-> data, xml |-> xml,
     validation_errors |-> validation_errors, message |-> Some(SuccessMsg)]

FormatNames == [json |-> <<"j","s","o","n">>, xml |-> <<"x","m","l">>, both |-> <<"b","o","t","h">>, yaml |-> <<"y","a","m","l">>]

\* the name NamedTemporaryFile(suffix=file_ext) gives the saved upload
tmp_path(file_ext) == <<"/","t","m","p","/","t","m","p","k","3","x","9">> \o file_ext

\* the "Build response" block of convert
build_response(output_format, result) ==
    IF output_format = "json" THEN ConvertResponse(Some(result), None, <<>>)
    ELSE IF output_format = "xml" THEN ConvertResponse(None, Some(result), <<>>)
    ELSE ConvertResponse(result.json_data, result.xml_data, result.validation_errors)

\* convert: the response, or the HTTPException, for a request
convert(req) ==
    LET file_ext == lower(path_suffix(req.filename))
        result == convert_to_europass([req.document EXCEPT !.file_path = tmp_path(file_ext)],
                                      req.include_photo, req.output_format, req.use_ocr,
                                      req.validate, req.now, req.packages)
    IN IF req.filename = <<>> THEN HTTPException(400, NoFileMsg)
       ELSE IF file_ext \notin { <<".","p","d","f">>, <<".","d","o","c","x">>, <<".","d","o","c">> }
       THEN HTTPException(400, UnsupportedUploadMsg(file_ext))
       ELSE IF req.output_format \notin {"json", "xml", "both"}
       THEN HTTPException(400, InvalidFormatMsg(FormatNames[req.output_format]))
       ELSE IF req.upload # "ok"
       THEN HTTPException(500, ConversionFailedMsg(<<"O","S","E","r","r","o","r">>))
       ELSE IF result.raised # "none"
       THEN HTTPException(500, ConversionFailedMsg(result.raised))
       ELSE build_response(req.output_format, result.value)

\* the directory of temporary files when convert is left: NamedTemporaryFile(
\* delete=False) makes the file once the request has passed the three checks;
\* Path(tmp_path).unlink() removes it after the conversion, or in the except
\* block if tmp_path is among the locals, which it is once the upload is saved
temp_files_after(req, files) ==
    LET file_ext == lower(path_suffix(req.filename))
    IN IF \/ req.filename = <<>>
          \/ file_ext \notin { <<".","p","d","f">>, <<".","d","o","c","x">>, <<".","d","o","c">> }
          \/ req.output_format \notin {"json", "xml", "both"}
       THEN files
       ELSE IF req.upload # "ok"
       THEN files \cup {tmp_path(file_ext)}
       ELSE (files \cup {tmp_path(file_ext)}) \ {tmp_path(file_ext)}

Uploads == { <<>>, <<"c","v",".","p","d","f">>, <<"C","V",".","P","D","F">>, <<"n","o","t","e","s",".","t","x","t">> }

\* the uploads are PDF files: a Word upload goes to DOCXExtractor.extract
UploadedDocuments == {document \in Documents : document.fitz # None \/ document.pdfminer # <<>>}

\* content = await file.read() and tmp_file.write(content) return, or one of them
\* raises
UploadOutcomes == {"ok", "read_error", "write_error"}

Requests ==
    [filename : Uploads, upload : UploadOutcomes, document : UploadedDocuments, include_photo : {TRUE},
     output_format : DOMAIN FormatNames, use_ocr : BOOLEAN, validate : BOOLEAN,
     now : Clock, packages : XmlPackages]

\* a request has arrived at POST /convert
ApiInit == /\ request \in Requests
           /\ response = EmptyDict
           /\ calls = <<>>
           /\ heap = <<>>
           /\ returned = {}
           /\ tmp_files = {}
           /\ reg_call = RegIdle
           /\ reg_result = Returned("none")
           /\ conv_in = EmptyDict
           /\ conv_pc = "idle"
           /\ europass = EmptyDict
           /\ json_data = EmptyDict
           /\ validation = EmptyDict
           /\ ExtractIdle
           /\ ParseIdle

\* the handler runs and answers
Convert ==
    /\ response = EmptyDict
    /\ response' = convert(request)
    /\ tmp_files' = temp_files_after(request, tmp_files)
    /\ UNCHANGED <<request, calls, heap, returned, regVars, convVars, extractVars, parseVars>>

ApiNext == Convert

SpecApi == ApiInit /\ [][ApiNext]_vars

\* the errors the validator reports for the output a response carries
ReportedErrors(req, resp) ==
    (IF resp.data # None THEN validate_json(val(resp.data)).errors ELSE <<>>)
      \o (IF resp.xml # None THEN validate_xml(val(resp.xml), req.packages).errors ELSE <<>>)

\* C19: when validate = true and the validator reports errors for the generated
\* output, the /convert response has success = true and its validation_errors
\* lists those errors, for output_format json, xml and both
C19_ValidationErrorsListed ==
    (/\ response # EmptyDict
     /\ response.status = 200
     /\ request.validate
     /\ ReportedErrors(request, response) # <<>>)
    => /\ response.success
       /\ response.validation_errors = ReportedErrors(request, response)

(***************************************************************************)
(* Conversion calls on several threads: convert_to_europass statement by   *)
(* statement, with the objects the calls create                            *)
(***************************************************************************)
Threads == {"t1", "t2"}
MaxCalls == 3

\* datetime.utcnow().isoformat(): the clock has ticked once for every call begun
utcnow(ticks) == <<"2","0","2","6","-","0","1","-","0","1","T","0","0",":","0","0",":","0">> \o int_to_str(ticks)

\* a thread that is in no call
NoCall == [pc |-> "idle", begun |-> 0, alone |-> TRUE, input |-> EmptyDict,
           extractor |-> EmptyDict, text |-> <<>>, metadata |-> EmptyDict,
           resume |-> EmptyDict, europass |-> EmptyDict]

\* OCR is asked for the file whose page has no text layer
CallInputs == {input \in [document : Documents, use_ocr : BOOLEAN] :
                 input.use_ocr =>
                    /\ input.document.fitz # None
                    /\ \E k \in 1..Len(val(input.document.fitz).pages) :
                          strip(val(input.document.fitz).pages[k].text) = <<>>}

RECURSIVE begun_by(_)
begun_by(threads) ==
    IF threads = {} THEN 0
    ELSE LET c == CHOOSE c \in threads : TRUE
         IN calls[c].begun + begun_by(threads \ {c})

\* a plausible slip: metadata: dict = {} on a plain class, one dict that every
\* instance shares
Resume_metadata_shared(objects) == 1

\* Field(default_factory=dict): Resume() gets a dict no other object refers to
Resume_metadata(objects) == Len(objects) + 1

\* the Resume as a value: its metadata reference followed
resume_value(resume, objects) == [resume EXCEPT !.metadata = objects[resume.metadata]]

\* what a call gave back
Outcome(c, raised_by, resume, json) ==
    [alone |-> calls[c].alone, input |-> calls[c].input, raised |-> raised_by,
     resume |-> resume, json |-> json]

\* no thread is in a call, and the program has just been imported
ThreadsInit == /\ calls = [c \in Threads |-> NoCall]
               /\ heap = <<>>
               /\ returned = {}
               /\ tmp_files = {}
               /\ request = EmptyDict
               /\ response = EmptyDict
               /\ reg_call = RegIdle
               /\ reg_result = Returned("none")
               /\ conv_in = EmptyDict
               /\ conv_pc = "idle"
               /\ europass = EmptyDict
               /\ json_data = EmptyDict
               /\ validation = EmptyDict
               /\ ExtractIdle
               /\ ParseIdle

\* the calls of the other threads that are under way are no longer alone
Overlapping(c, others_busy) ==
    [d \in Threads |->
        IF d # c /\ calls[d].pc # "idle" THEN [calls[d] EXCEPT !.alone = FALSE]
        ELSE calls[d]]

\* convert_to_europass is called: extract_resume picks the extractor by suffix
\* and creates it, and extract reads the text and the metadata of the file
Call(c) ==
    /\ calls[c].pc = "idle"
    /\ begun_by(Threads) < MaxCalls
    /\ \E input \in CallInputs :
         LET busy == \E d \in Threads \ {c} : calls[d].pc # "idle"
             selected == extract_resume(input.document)
             read == extract_text(input.document, input.use_ocr)
             mine == [NoCall EXCEPT !.begun = calls[c].begun + 1, !.alone = ~busy,
                                    !.input = input]
         IN IF selected.exception # "none"
            THEN /\ calls' = [Overlapping(c, busy) EXCEPT ![c] = [mine EXCEPT !.pc = "idle"]]
                 /\ returned' = returned \cup
                       {[alone |-> mine.alone, input |-> input,
                         raised |-> selected.exception,
                         resume |-> EmptyDict, json |-> EmptyDict]}
            ELSE /\ calls' = [Overlapping(c, busy) EXCEPT ![c] =
                                [mine EXCEPT !.pc = "read",
                                             !.extractor = [class |-> selected.extractor,
                                                            use_ocr |-> input.use_ocr],
                                             !.text = read.text,
                                             !.metadata = read.metadata]]
                 /\ returned' = returned
    /\ UNCHANGED <<heap, request, response, tmp_files, regVars, convVars, extractVars, parseVars>>

\* resume = self._parse_text_to_resume(text, metadata): Resume() and the
\* assignments to its fields
Parse(c) ==
    /\ calls[c].pc = "read"
    /\ LET id == Resume_metadata(heap)
       IN /\ heap' = IF id > Len(heap) THEN Append(heap, EmptyDict) ELSE heap
          /\ calls' = [calls EXCEPT ![c].pc = "parsed",
                                    ![c].resume =
                                        PDFExtractor_parse_text_to_resume(calls[c].text)
                                          @@ [raw_text |-> None, metadata |-> id]]
    /\ UNCHANGED <<returned, request, response, tmp_files, regVars, convVars, extractVars, parseVars>>

\* resume.raw_text = text; resume.metadata.update(metadata)
UpdateMetadata(c) ==
    /\ calls[c].pc = "parsed"
    /\ heap' = [heap EXCEPT ![calls[c].resume.metadata] = dict_update(@, calls[c].metadata)]
    /\ calls' = [calls EXCEPT ![c].pc = "extracted",
                              ![c].resume.raw_text = Some(calls[c].text)]
    /\ UNCHANGED <<returned, request, response, tmp_files, regVars, convVars, extractVars, parseVars>>

\* europass = map_to_europass(resume, ...): a new EuropassMapper maps the Resume
MapResume(c) ==
    /\ calls[c].pc = "extracted"
    /\ calls' = [calls EXCEPT ![c].pc = "mapped",
                              ![c].europass = map(resume_value(calls[c].resume, heap),
                                                  TRUE, utcnow(begun_by(Threads)))]
    /\ UNCHANGED <<heap, returned, request, response, tmp_files, regVars, convVars, extractVars,
                   parseVars>>

\* result.json_data = europass.to_json(), and the call returns
ReturnJson(c) ==
    /\ calls[c].pc = "mapped"
    /\ returned' = returned \cup
          {Outcome(c, "none", resume_value(calls[c].resume, heap),
                   to_json(calls[c].europass))}
    /\ calls' = [calls EXCEPT ![c] = [NoCall EXCEPT !.begun = calls[c].begun]]
    /\ UNCHANGED <<heap, request, response, tmp_files, regVars, convVars, extractVars, parseVars>>

ThreadsNext ==
    \E c \in Threads :
        Call(c) \/ Parse(c) \/ UpdateMetadata(c) \/ MapResume(c) \/ ReturnJson(c)

SpecThreads == ThreadsInit /\ [][ThreadsNext]_vars

\* the mapped output apart from DocumentInfo.CreationDate
ApartFromCreationDate(json) ==
    IF IsEmpty(json) THEN json
    ELSE [json EXCEPT !.DocumentInfo = [k \in DOMAIN @ \ {"CreationDate"} |-> @[k]]]

\* the calls under way that hold a Resume
Holding == {c \in Threads : calls[c].pc \in {"parsed", "extracted", "mapped"}}

\* C13: two calls with the same input give the same Resume and, apart from
\* DocumentInfo.CreationDate, the same EuropassCV, whether a call ran alone,
\* after other calls, twice in a row or interleaved with calls on other
\* threads; and no two calls under way share the dict of their Resume
C13_NoSharedState ==
    /\ \A r1, r2 \in returned :
          r1.input = r2.input =>
             /\ r1.raised = r2.raised
             /\ r1.resume = r2.resume
             /\ ApartFromCreationDate(r1.json) = ApartFromCreationDate(r2.json)
    /\ \A c, d \in Holding : c # d => calls[c].resume.metadata # calls[d].resume.metadata

\* a call that ran alone and a call that overlapped another thread's call on a
\* different file have both returned for the same file, after a third call
C13_Witness ==
    \E r1, r2, r3 \in returned :
        /\ r1.input = r2.input
        /\ r1.alone /\ ~r2.alone
        /\ r1.raised = "none"
        /\ ~IsEmpty(r1.resume.metadata)
        /\ r3.input.document # r1.input.document
        /\ r3.raised = "none"

(***************************************************************************)
(* Section splitting: DOCXExtractor._split_into_sections                   *)
(***************************************************************************)
\* SECTION_HEADERS of DOCXExtractor in the order of the dict, the headers of a
\* section in the order of the alternation
docx_SECTION_HEADERS ==
    << <<"work_experience", << <<"w","o","r","k"," ","e","x","p","e","r","i","e","n","c","e">>, <<"p","r","o","f","e","s","s","i","o","n","a","l"," ","e","x","p","e","r","i","e","n","c","e">>,
                               <<"e","m","p","l","o","y","m","e","n","t"," ","h","i","s","t","o","r","y">>, <<"e","x","p","e","r","i","e","n","c","e">>, <<"w","e","r","k","e","r","v","a","r","i","n","g">>,
                               <<"w","o","r","k"," ","h","i","s","t","o","r","y">>, <<"c","a","r","e","e","r">> >> >>,
       <<"education", << <<"e","d","u","c","a","t","i","o","n">>, <<"a","c","a","d","e","m","i","c"," ","b","a","c","k","g","r","o","u","n","d">>, <<"o","p","l","e","i","d","i","n","g","e","n">>, <<"a","c","a","d","e","m","i","c">>,
                         <<"q","u","a","l","i","f","i","c","a","t","i","o","n","s">>, <<"d","e","g","r","e","e","s">> >> >>,
       <<"skills", << <<"s","k","i","l","l","s">>, <<"t","e","c","h","n","i","c","a","l"," ","s","k","i","l","l","s">>, <<"v","a","a","r","d","i","g","h","e","d","e","n">>, <<"s","o","f","t","w","a","r","e"," ","k","e","n","n","i","s">>,
                      <<"c","o","m","p","e","t","e","n","c","i","e","s">>, <<"e","x","p","e","r","t","i","s","e">> >> >>,
       <<"languages", << <<"l","a","n","g","u","a","g","e","s">>, <<"l","a","n","g","u","a","g","e"," ","s","k","i","l","l","s">>, <<"t","a","l","e","n">> >> >>,
       <<"certifications", << <<"c","e","r","t","i","f","i","c","a","t","i","o","n","s">>, <<"c","e","r","t","i","f","i","c","a","t","e","s">>, <<"t","r","a","i","n","i","n","g">>,
                              <<"p","r","o","f","e","s","s","i","o","n","a","l"," ","d","e","v","e","l","o","p","m","e","n","t">>, <<"t","r","a","i","n","i","n","g"," ","e","n"," ","c","e","r","t","i","f","i","c","e","r","i","n","g">>,
                              <<"c","e","r","t","i","f","i","c","a","t","e","n">> >> >>,
       <<"summary", << <<"s","u","m","m","a","r","y">>, <<"p","r","o","f","i","l","e">>, <<"a","b","o","u","t">>, <<"s","a","m","e","n","v","a","t","t","i","n","g">>, <<"p","r","o","f","i","e","l">> >> >> >>

\* r"(?i)\b(" + "|".join(re.escape(h) for h in headers) + r")[\s:]*"
docx_header_pattern(headers) ==
    Cat(<<WordBoundary, Alt([k \in 1..Len(headers) |-> Literal(headers[k])]),
          Rep(Chars(Whitespace \cup {":"}), 0, -1)>>)

\* (match.start(), section_key, match.group()) for every match of every section
docx_matches(text) ==
    UNION {LET found == re_finditer(docx_header_pattern(docx_SECTION_HEADERS[k][2]), text, 0)
           IN {[start |-> found[j].start, key |-> docx_SECTION_HEADERS[k][1],
                header |-> group(text, found[j])] : j \in 1..Len(found)}
           : k \in 1..Len(docx_SECTION_HEADERS)}

\* the keys in the order of str comparison, which decides between equal starts
docx_key_order ==
    <<"certifications", "education", "languages", "skills", "summary", "work_experience">>

docx_key_rank(key) == CHOOSE r \in 1..Len(docx_key_order) : docx_key_order[r] = key

\* section_positions.sort() on a set of tuples
docx_sorted(P) ==
    LET before(q, p) == \/ q.start < p.start
                        \/ q.start = p.start /\ docx_key_rank(q.key) < docx_key_rank(p.key)
    IN [i \in 1..Cardinality(P) |->
          CHOOSE p \in P : Cardinality({q \in P : before(q, p)}) = i - 1]

docx_section_positions(text) == docx_sorted(docx_matches(text))

\* re.sub(r"^:\s*", "", content)
remove_colon(content) ==
    IF content # <<>> /\ content[1] = ":" THEN lstrip(Tail(content)) ELSE content

\* the content of the i-th position: from its header to the next header
docx_section_content(text, positions, i) ==
    LET end == IF i + 1 <= Len(positions) THEN positions[i + 1].start ELSE Len(text)
    IN strip(remove_colon(strip(remove_header(strip(Slice(text, positions[i].start, end)),
                                              positions[i].header))))

\* the loop over the positions: sections[key] = content, a later one for the same
\* key taking the place of the earlier one
docx_sections_from(text, positions) ==
    [key \in {positions[i].key : i \in 1..Len(positions)} |->
        docx_section_content(text, positions,
                             SetMax({i \in 1..Len(positions) : positions[i].key = key}))]

\* DOCXExtractor._split_into_sections
DOCXExtractor_split_into_sections(text) ==
    docx_sections_from(text, docx_section_positions(text))

MaxHeaderLines == 3

\* header lines flush-left, with a colon and indented, a header word in a line of
\* prose, and lines without a header word
HeaderLines ==
    { <<"S","k","i","l","l","s">>, <<"S","k","i","l","l","s",":">>, <<" "," ","S","K","I","L","L","S">>, <<"G","o","o","d"," ","s","k","i","l","l","s"," ","i","n"," ","P","y","t","h","o","n">>, <<"E","d","u","c","a","t","i","o","n">>,
      <<"P","y","t","h","o","n",","," ","S","Q","L">> }

HeaderTexts == {join(<<"\n">>, lines) : lines \in SeqsUpTo(HeaderLines, MaxHeaderLines)}

\* the text of a document has been read; nothing is parsed yet
HeadersInit == /\ section_text \in HeaderTexts
               /\ extract_by = "none"
               /\ languages = <<>>
               /\ skills = <<>>
               /\ ParseIdle
               /\ ServiceIdle
               /\ reg_call = RegIdle
               /\ reg_result = Returned("none")
               /\ conv_in = EmptyDict
               /\ conv_pc = "idle"
               /\ europass = EmptyDict
               /\ json_data = EmptyDict
               /\ validation = EmptyDict

\* DOCXExtractor._parse_text_to_resume: sections = self._split_into_sections(text)
DOCXSplitIntoSections ==
    /\ extract_by = "none"
    /\ extract_by' = "docx"
    /\ sections' = DOCXExtractor_split_into_sections(section_text)
    /\ UNCHANGED <<section_text, languages, skills, extracted, raised, regVars, serviceVars, convVars>>

\* GenericPDFExtractor._parse_text_to_resume after the split: the keys it looks up
\* in the sections
parser_keys ==
    {"experience", "work", "language", "education", "skill", "certification", "summary",
     "profile"}

\* GenericPDFExtractor._parse_text_to_resume: if "skill" in sections:
\* resume.skills = self._extract_skills(sections["skill"]); Resume() has no skills
GenericParseSkills ==
    /\ extract_by = "generic"
    /\ extract_by' = "resume"
    /\ skills' = IF "skill" \in DOMAIN sections
                 THEN GenericPDFExtractor_extract_skills(sections["skill"])
                 ELSE <<>>
    /\ UNCHANGED <<section_text, languages, sections, extracted, raised, regVars, serviceVars, convVars>>

HeadersNext == SplitIntoSections \/ DOCXSplitIntoSections \/ GenericParseSkills

SpecHeaders == HeadersInit /\ [][HeadersNext]_vars

\* the section names of an extractor with the keywords that announce them
KeywordsOf(extractor) ==
    IF extractor = "generic"
    THEN {<<section_patterns[k][1], section_patterns[k][2]>> : k \in 1..Len(section_patterns)}
    ELSE {<<docx_SECTION_HEADERS[k][1], Range(docx_SECTION_HEADERS[k][2])>> :
             k \in 1..Len(docx_SECTION_HEADERS)}

\* the line is a keyword, in any case, between blanks and with or without a colon
\* after it
OwnLineHeader(line, keywords) ==
    LET bare == strip_blanks(line)
        word == IF bare # <<>> /\ bare[Len(bare)] = ":"
                THEN strip_blanks(SubSeq(bare, 1, Len(bare) - 1))
                ELSE bare
    IN lower(word) \in keywords

\* C23: a section header is recognized exactly when a header keyword occupies a
\* line of its own (in any case, blanks around it allowed), with or without a colon
\* after it; a keyword inside a longer line of prose starts no section.  For the
\* section splitters of GenericPDFExtractor and of DOCXExtractor.
C23_HeaderOnOwnLine ==
    extract_by \in {"generic", "docx"} =>
        \A section \in KeywordsOf(extract_by) :
            section[1] \in DOMAIN sections
                <=> \E k \in 1..Len(split_chars(section_text, {"\n"})) :
                        OwnLineHeader(split_chars(section_text, {"\n"})[k], section[2])

\* every header occurrence the splitter of the extractor matches, in text order
AllOccurrences(extractor, text) ==
    IF extractor = "generic"
    THEN docx_sorted(UNION {{[start |-> p, key |-> section_patterns[k][1],
                              header |-> Slice(text, p, line_end(text, p))] :
                                p \in header_starts(text, section_patterns[k][2])} :
                            k \in 1..Len(section_patterns)})
    ELSE docx_section_positions(text)

\* the occurrences that are the first of their section
FirstOnly(positions) ==
    SelectSeq(positions,
              LAMBDA p : \A i \in 1..Len(positions) :
                             positions[i].key = p.key => positions[i].start >= p.start)

\* C25: only the first occurrence of the header of a section delimits the section:
\* a repeat of a header of the same section makes no new boundary and does not
\* replace the content captured at the first occurrence.  For the section
\* splitters of GenericPDFExtractor and of DOCXExtractor.
C25_FirstOccurrenceOnly ==
    extract_by \in {"generic", "docx"} =>
        LET firsts == FirstOnly(AllOccurrences(extract_by, section_text))
        IN /\ DOMAIN sections = {firsts[i].key : i \in 1..Len(firsts)}
           /\ \A i \in 1..Len(firsts) :
                 sections[firsts[i].key] =
                     IF extract_by = "generic"
                     THEN section_content(section_text, firsts[i].start,
                                          section_end(section_text, firsts, i),
                                          firsts[i].header)
                     ELSE docx_section_content(section_text, firsts, i)

\* C27: the section names agree between the splitter and the parser of
\* GenericPDFExtractor: every name the splitter emits is a name the parser looks
\* up, so a skills section from which at least one valid skill name can be
\* extracted gives the Resume a non-empty skills list.
C27_SectionKeysAgree ==
    extract_by = "resume" =>
        /\ DOMAIN sections \subseteq parser_keys
        /\ ("skills" \in DOMAIN sections
              /\ GenericPDFExtractor_extract_skills(sections["skills"]) # <<>>)
               => skills # <<>>

\* C30: POST /convert leaves no temporary file behind: when the handler has
\* answered, with a successful response, after a conversion error or after a
\* failure to read or to save the upload, the temporary file it made is gone,
\* and a request rejected with status 400 has made no temporary file.
C30_NoTempFileLeft ==
    response # EmptyDict => tmp_files = {}

====
